---- MODULE Spec2Model ----
(***************************************************************************)
(* Model of the daily-briefing scripts.                                    *)
(*   news_pipeline.py    RSS/API collection, keyword filter, source health *)
(*   daily_push_qwen.py  LLM call with retries, three push channels,       *)
(*                       _chunk_markdown character by character            *)
(*   migrate_sources_yml.py, holdings_tracker.py, fetch_news.gather_all    *)
(* Texts are sequences of one-character strings, so that lower-casing and  *)
(* substring search are computed and not assumed.                          *)
(***************************************************************************)
EXTENDS Integers, Sequences, FiniteSets, TLC

VARIABLES
    \* ---- news_pipeline.py ----
    file,            \* sources.yml: the list of source dicts on disk
    phase,           \* "idle" | "fetching" | "saved": position of main
    runs,            \* completed runs of main
    env,             \* environment of the run: API keys set, CHINESE_ONLY
    world,           \* what the run can meet: feed entries inside the time
                     \* window, and keyword lists holdings.json and Qwen yield
    sources_rss,     \* main's list of loaded sources (mutated by the write-back)
    before,          \* the loaded sources as they were before the write-back
    pending,         \* indices of fetch_rss_source tasks not yet completed
    own,             \* index -> (items, err) returned by that source's own fetch
    api_results,     \* what the three API fetchers returned in this run
    all_items,       \* main's all_items
    per_source_all,  \* main's per_source_all: key -> count
    last_status,     \* main's last_status: key -> status
    final_kws,       \* main's final_kws
    briefing,        \* briefing.txt: one line per hit item
    news_all,        \* news_all.csv: one row per collected item
    errors_log,      \* errors.log: the warnings and errors of main's two loops
    file_read,       \* sources.yml as load_sources read it in this run
    file0,           \* sources.yml before the first run
    allFailed,       \* keys whose own fetch failed in every run so far
    everOk,          \* keys whose own fetch succeeded in some completed run
    \* ---- daily_push_qwen.py ----
    dpc,             \* position of main
    inputs,          \* holdings.json / briefing.txt non-empty; SCKEY, Telegram env set
    call,            \* 0: none yet, 1: the first call_qwen, 2: the supplementary one
    attempt,         \* call_qwen's loop variable
    outcomes,        \* outcome of every POST of the current call_qwen
    sleeps,          \* delays the current call_qwen has slept
    qresult,         \* "none" | "running" | "returned" | "raised"
    answer,          \* main's answer (NoText before the first call returns)
    written,         \* qwen_answer.md (NoText: not written)
    called,          \* push functions main has called, in order
    requests,        \* HTTP requests the push functions have issued, in order
    chunks,          \* Telegram chunks still to send (each: its lines)
    main_raised,     \* an exception has left main
    \* ---- news_pipeline.fetch_juhe_caijing ----
    juhe,            \* one call: its arguments, locals, requests and result
    \* ---- migrate_sources_yml.py ----
    mig,             \* one run of main: sources.yml, the backup, main's locals
    \* ---- holdings_tracker.py ----
    ht,              \* holdings.json, the snapshot, the log, main's position
    \* ---- fetch_news.py ----
    fn,              \* one call of gather_all: arguments, locals and result
    \* ---- daily_push_qwen._chunk_markdown ----
    ck               \* one call: md_text, limit, the sections left, out

pipeVars == <<file, phase, runs, env, world, sources_rss, before, pending, own,
              api_results, all_items, per_source_all, last_status, final_kws,
              briefing, news_all, errors_log, file_read, file0, allFailed, everOk>>

pushVars == <<dpc, inputs, call, attempt, outcomes, sleeps, qresult, answer,
              written, called, requests, chunks, main_raised>>

\* the state of the scripts and calls that run on their own
restVars == <<juhe, mig, ht, fn, ck>>

vars == <<pipeVars, pushVars, restVars>>

-----------------------------------------------------------------------------
(* Bounds of the model *)

MaxRuns == 3        \* runs of main in one behaviour
InitMaxFail == 3    \* largest consec_fail in the initial sources.yml
MaxLen == 2         \* longest title a feed entry carries
ShortLen == 2000    \* characters of a short text Qwen returns
LongLen == 4000     \* characters of a long text Qwen returns

(* Program constants *)

FailLimit == 3          \* news_pipeline.py:508
EnglishMinLen == 2      \* news_pipeline.py:96
EnglishMaxLen == 24     \* news_pipeline.py:96
ChineseMinLen == 2      \* news_pipeline.py:102
ChineseMaxLen == 6      \* news_pipeline.py:102

None == "None"          \* Python's None
Now == "now"            \* the value of now_iso() in a run

-----------------------------------------------------------------------------
(* Texts *)

Lower1(c) == IF c = "A" THEN "a" ELSE IF c = "B" THEN "b" ELSE c

\* str.lower()
StrLower(s) == [i \in 1..Len(s) |-> Lower1(s[i])]

\* Python's `needle in hay` for strings
IsSubstring(needle, hay) ==
    \E off \in 0..(Len(hay) - Len(needle)) :
        \A j \in 1..Len(needle) : hay[off + j] = needle[j]

RECURSIVE LStrip(_)
LStrip(s) == IF s # <<>> /\ Head(s) = " " THEN LStrip(Tail(s)) ELSE s

RECURSIVE RStrip(_)
RStrip(s) == IF s # <<>> /\ s[Len(s)] = " " THEN RStrip(SubSeq(s, 1, Len(s) - 1)) ELSE s

\* str.strip()
Strip(s) == RStrip(LStrip(s))

Alnum == {"a", "b", "A", "B"}
Hanzi == {"U+4E2D", "U+6587"}     \* two characters of the CJK range \u4e00-\u9fff

is_chinese_word(s0) ==
    LET s == Strip(s0) IN s # <<>> /\ \A i \in 1..Len(s) : s[i] \in Hanzi

is_english_word(s0) ==
    LET s == Strip(s0)
    IN  /\ Len(s) >= EnglishMinLen
        /\ Len(s) <= EnglishMaxLen
        /\ s[1] \in Alnum
        /\ \A i \in 2..Len(s) : s[i] \in Alnum \cup {" "}

is_keyword(s0) ==
    LET s == Strip(s0)
    IN  \/ (is_chinese_word(s) /\ ChineseMinLen <= Len(s) /\ Len(s) <= ChineseMaxLen)
        \/ is_english_word(s)

RECURSIVE uniq_from(_, _)
uniq_from(seq, out) ==
    IF seq = <<>> THEN out
    ELSE LET x == Strip(Head(seq))
         IN  IF x = <<>> \/ \E i \in 1..Len(out) : out[i] = x
             THEN uniq_from(Tail(seq), out)
             ELSE uniq_from(Tail(seq), Append(out, x))

uniq_keep_order(seq) == uniq_from(seq, <<>>)

RECURSIVE merge_english(_, _, _)
merge_english(kws, seen_en, merged) ==
    IF kws = <<>> THEN merged
    ELSE LET k == Head(kws)
         IN  IF is_english_word(k) /\ StrLower(k) \in seen_en
             THEN merge_english(Tail(kws), seen_en, merged)
             ELSE merge_english(Tail(kws),
                                IF is_english_word(k) THEN seen_en \cup {StrLower(k)} ELSE seen_en,
                                Append(merged, k))

\* main, step 2: final_kws from the base and the Qwen keywords
FinalKeywords(base_kws, extra_kws, chinese_only) ==
    LET u == uniq_keep_order(base_kws \o extra_kws)
    IN  IF chinese_only THEN u ELSE merge_english(u, {}, <<>>)

Blob(title, summary, content) ==
    StrLower(title \o <<" ">> \o summary \o <<" ">> \o content)

hit_by_keywords_nolower(title, summary, content, kws) ==
    \E i \in 1..Len(kws) : IsSubstring(kws[i], Blob(title, summary, content))

hit_by_keywords(title, summary, content, kws) ==
    \E i \in 1..Len(kws) : IsSubstring(StrLower(kws[i]), Blob(title, summary, content))

-----------------------------------------------------------------------------
(* sources.yml *)

RssKeys == {"a", "newsapi"}
ApiNames == <<"newsapi", "mediastack", "juhe_caijing">>

\* order of the key strings under Python's string comparison
KeyRank(k) ==
    CASE k = "a" -> 1
      [] k = "juhe_caijing" -> 2
      [] k = "mediastack" -> 3
      [] k = "newsapi" -> 4
      [] OTHER -> 0

Source(key, url, keep, cf) ==
    [key |-> key, name |-> key, url |-> url, keep |-> keep, consec_fail |-> cf,
     last_ok |-> None, last_error |-> None, ok |-> FALSE]

load_sources(f) == SelectSeq(f, LAMBDA d : d.key # "" /\ d.url # "")

SortKeyLess(x, y) ==
    \/ (x.keep /\ ~y.keep)
    \/ (x.keep = y.keep /\ KeyRank(x.key) < KeyRank(y.key))

RECURSIVE InsertSorted(_, _)
InsertSorted(s, x) ==
    IF s = <<>> THEN <<x>>
    ELSE IF SortKeyLess(x, Head(s)) THEN <<x>> \o s
    ELSE <<Head(s)>> \o InsertSorted(Tail(s), x)

RECURSIVE SortSources(_)
SortSources(items) ==
    IF items = <<>> THEN <<>>
    ELSE InsertSorted(SortSources(SubSeq(items, 1, Len(items) - 1)), items[Len(items)])

\* save_sources: Python's stable sort by (not keep, key), then the write
save_sources(items) == SortSources(items)

Get(f, k, default) == IF k \in DOMAIN f THEN f[k] ELSE default

\* `"OK" if (err is None and len(items) > 0) else (err or "0 items")`
StatusOf(items, err) ==
    IF err = None /\ Len(items) > 0 THEN "OK"
    ELSE IF err # None THEN err ELSE "0 items"

\* main, step 7: the update of one source dict
WriteBack(s, psa, ls) ==
    LET all_cnt == Get(psa, s.key, 0)
        status == Get(ls, s.key, "-")
    IN  IF all_cnt > 0 /\ status = "OK"
        THEN [s EXCEPT !.consec_fail = 0, !.last_ok = Now, !.last_error = None, !.ok = TRUE]
        ELSE [s EXCEPT !.consec_fail = @ + 1, !.last_error = status]

IsRemovedNoKeep(s) == s.consec_fail >= FailLimit

IsRemovedLate(s) == s.consec_fail > FailLimit /\ ~s.keep

IsRemoved(s) == s.consec_fail >= FailLimit /\ ~s.keep

-----------------------------------------------------------------------------
(* Fetch results *)

\* strings of at most n letters
Letters == {"a", "B"}
Str(n) == UNION {[1..m -> Letters] : m \in 0..n}

Entry(t, s, c) == [title |-> t, summary |-> s, content |-> c]

OneLetter == {<<>>} \cup {<<c>> : c \in Letters}

Entries == [title : Str(MaxLen), summary : OneLetter, content : OneLetter]

FewEntries == {Entry(<<"a", "B">>, <<>>, <<>>), Entry(<<"B">>, <<"a">>, <<>>),
               Entry(<<>>, <<>>, <<"B">>)}

Item(src, e) ==
    [source_key |-> src.key, source_name |-> src.name,
     title |-> e.title, summary |-> e.summary, content |-> e.content]

\* fetch_rss_source: the three ways it returns
RssResults(src) ==
    {[items |-> <<>>, err |-> "HTTP 500"]}
    \cup {[items |-> <<>>, err |-> "ConnectError"]}
    \cup {[items |-> <<>>, err |-> None]}
    \cup {[items |-> <<Item(src, e)>>, err |-> None] : e \in world.entries[src.key]}

ApiItem(name) ==
    [source_key |-> name, source_name |-> name,
     title |-> <<"a", "B">>, summary |-> <<>>, content |-> <<>>]

\* fetch_newsapi / fetch_mediastack / fetch_juhe_caijing, as main sees them
ApiResults(name, kws) ==
    IF name \notin env.api_keys THEN {[items |-> <<>>, err |-> "no_key"]}
    ELSE {[items |-> <<>>, err |-> "0 items"]}
         \cup {[items |-> <<>>, err |-> "ReadTimeout"]}
         \cup (IF kws = <<>> /\ name # "juhe_caijing" THEN {}
               ELSE {[items |-> <<ApiItem(name)>>, err |-> None]})

-----------------------------------------------------------------------------
(* news_pipeline.main *)

\* base_kws (Chinese words from holdings.json) and extra_kws (what
\* qwen_expand_keywords kept of Qwen's answer: is_keyword holds of each)
KwCandidates ==
    { [base |-> <<>>, extra |-> <<>>],
      [base |-> <<>>, extra |-> << <<"a", "b">> >>],
      [base |-> <<>>, extra |-> << <<"A", "b">>, <<"a", "b">> >>],
      [base |-> << <<"U+4E2D", "U+6587">> >>, extra |-> << <<"b", " ", "A">> >>],
      [base |-> << <<"U+4E2D", "U+6587">> >>, extra |-> << <<"B", "a">>, <<"U+4E2D", "U+6587">> >>] }

KwInputs ==
    {k \in KwCandidates :
        /\ \A i \in 1..Len(k.base) :
              is_chinese_word(k.base[i]) /\ ChineseMinLen <= Len(k.base[i])
                                         /\ Len(k.base[i]) <= ChineseMaxLen
        /\ \A i \in 1..Len(k.extra) : is_keyword(k.extra[i])}

\* Behaviours of MaxRuns runs are explored from the one-source files, and one
\* run from every larger file.
RunBudget(f) == IF Len(f) <= 1 THEN MaxRuns ELSE 1

\* steps 1-2 and the creation of the fetch tasks
Load ==
    /\ phase \in {"idle", "saved"}
    /\ runs < RunBudget(file0)
    /\ \E raw \in world.keywords :
         final_kws' = FinalKeywords(raw.base, raw.extra, env.chinese_only)
    /\ sources_rss' = load_sources(file)
    /\ before' = load_sources(file)
    /\ pending' = 1..Len(load_sources(file))
    /\ own' = <<>>
    /\ api_results' = <<>>
    /\ all_items' = <<>>
    /\ per_source_all' = <<>>
    /\ last_status' = <<>>
    /\ phase' = "fetching"
    /\ file_read' = file
    /\ errors_log' = <<>>       \* FileHandler(OUT_ERR, mode="w")
    /\ UNCHANGED <<file, runs, env, world, briefing, news_all, file0, allFailed, everOk>>
    /\ UNCHANGED <<pushVars, restVars>>

\* `if err is not None or len(items) == 0`
OwnFailed(r) == r.err # None \/ Len(r.items) = 0

\* the results of a fetch that are exceptions raised inside its try block
Exceptions == {"ConnectError", "ReadTimeout"}

ExceptNothing(err) == FALSE

\* `except Exception` of the fetch functions
ExceptException(err) == err \in Exceptions

\* the exception leaves the fetch function (and, awaited by main, main)
Escapes(r) == r.err \in Exceptions /\ ~ExceptException(r.err)

\* `logger.warning(...)` of main's loops for a failed source
Logged(log, key, r) ==
    IF OwnFailed(r) THEN Append(log, [key |-> key, status |-> StatusOf(r.items, r.err)])
    ELSE log

\* step 3: one task of asyncio.as_completed completes and main handles it
RssDone(i) ==
    /\ phase = "fetching"
    /\ i \in pending
    /\ \E r \in RssResults(sources_rss[i]) :
         LET key == sources_rss[i].key
         IN  IF Escapes(r)
             THEN /\ phase' = "aborted"
                  /\ UNCHANGED <<own, all_items, per_source_all, last_status, errors_log>>
             ELSE /\ own' = (i :> r) @@ own
                  /\ all_items' = all_items \o r.items
                  /\ per_source_all' = (key :> Len(r.items)) @@ per_source_all
                  /\ last_status' = (key :> StatusOf(r.items, r.err)) @@ last_status
                  /\ errors_log' = Logged(errors_log, key, r)
                  /\ UNCHANGED phase
    /\ pending' = pending \ {i}
    /\ UNCHANGED <<file, runs, env, world, sources_rss, before, api_results,
                   final_kws, briefing, news_all, file_read, file0, allFailed, everOk>>
    /\ UNCHANGED <<pushVars, restVars>>

\* step 4: the loop over the results of asyncio.gather
RECURSIVE ApiFold(_, _, _, _, _)
ApiFold(n, res, items, psa, ls) ==
    IF n > Len(ApiNames) THEN [items |-> items, psa |-> psa, ls |-> ls]
    ELSE LET key == ApiNames[n]
             r == res[n]
         IN  IF key \notin env.api_keys
             THEN ApiFold(n + 1, res, items, psa, ls)
             ELSE ApiFold(n + 1, res,
                          items \o r.items,
                          (key :> (Get(psa, key, 0) + Len(r.items))) @@ psa,
                          (key :> StatusOf(r.items, r.err)) @@ ls)

\* step 4: the warnings of that loop
RECURSIVE ApiLog(_, _, _)
ApiLog(n, res, log) ==
    IF n > Len(ApiNames) THEN log
    ELSE IF ApiNames[n] \notin env.api_keys THEN ApiLog(n + 1, res, log)
    ELSE ApiLog(n + 1, res, Logged(log, ApiNames[n], res[n]))

\* step 5
HitItems(items, kws) ==
    SelectSeq(items, LAMBDA it :
        kws = <<>> \/ hit_by_keywords(it.title, it.summary, it.content, kws))

\* step 6: a line of briefing.txt
Line(it) == [source_name |-> it.source_name, title |-> it.title]

Lines(items) == [i \in 1..Len(items) |-> Line(items[i])]

\* steps 4-7: API sources, keyword filter, output files, write-back, save
Finish ==
    /\ phase = "fetching"
    /\ pending = {}
    /\ \E res \in [1..Len(ApiNames) -> UNION {ApiResults(ApiNames[n], final_kws) : n \in 1..Len(ApiNames)}] :
         /\ \A n \in 1..Len(ApiNames) : res[n] \in ApiResults(ApiNames[n], final_kws)
         /\ IF \E n \in 1..Len(ApiNames) : Escapes(res[n])
            THEN \* asyncio.gather re-raises it in main
                 /\ phase' = "aborted"
                 /\ UNCHANGED <<file, runs, sources_rss, api_results, all_items,
                                per_source_all, last_status, briefing, news_all,
                                errors_log, allFailed, everOk>>
            ELSE LET a == ApiFold(1, res, all_items, per_source_all, last_status)
                     mutated == [i \in 1..Len(sources_rss) |-> WriteBack(sources_rss[i], a.psa, a.ls)]
                     updated == SelectSeq(mutated, LAMBDA s : ~IsRemoved(s))
                 IN  /\ api_results' = res
                     /\ all_items' = a.items
                     /\ per_source_all' = a.psa
                     /\ last_status' = a.ls
                     /\ errors_log' = ApiLog(1, res, errors_log)
                     /\ news_all' = a.items
                     /\ briefing' = Lines(HitItems(a.items, final_kws))
                     /\ sources_rss' = mutated
                     /\ file' = save_sources(updated)
                     /\ allFailed' = {k \in allFailed :
                            /\ \E i \in DOMAIN own : before[i].key = k
                            /\ \A i \in DOMAIN own : before[i].key = k => OwnFailed(own[i])}
                     /\ runs' = runs + 1
                     /\ phase' = "saved"
                     /\ everOk' = everOk \cup
                            {before[i].key : i \in {j \in DOMAIN own : ~OwnFailed(own[j])}}
    /\ UNCHANGED <<env, world, before, pending, own, final_kws, file_read, file0>>
    /\ UNCHANGED <<pushVars, restVars>>

-----------------------------------------------------------------------------
(* daily_push_qwen.py *)

QwenAttempts == 3       \* daily_push_qwen.py:72
LastAttempt == 2        \* daily_push_qwen.py:79

\* What one POST of call_qwen can meet:
\*   ok               status 200 and a JSON body with output.text
\*   ReadTimeout, ConnectError   httpx.RequestError and its subclasses
\*   HTTPStatusError  raise_for_status() on a 4xx/5xx status
\*   KeyError         a body without output.text (or JSONDecodeError: not JSON)
\* A text is its lines, each line the number of its characters: the lines are
\* plain (no Markdown or HTML syntax, no blanks at their ends), sec2 and sec3
\* say whether "2)" and "3)" occur in it.
Texts ==
    {[kind |-> "ok", sec2 |-> FALSE, sec3 |-> FALSE, lines |-> <<>>]}
    \cup [kind : {"ok"}, sec2 : BOOLEAN, sec3 : BOOLEAN, lines : {<<ShortLen>>, <<LongLen>>}]
NoText == [kind |-> "None"]     \* no answer yet / no file written
Failure(k) == [kind |-> k, sec2 |-> FALSE, sec3 |-> FALSE, lines |-> <<>>]
QwenOutcomes ==
    Texts \cup {Failure(k) : k \in {"ReadTimeout", "ConnectError", "HTTPStatusError", "KeyError"}}

\* `except (httpx.ReadTimeout, httpx.RequestError)`
Caught(o) == o.kind \in {"ReadTimeout", "ConnectError"}

Delay(k) == 2 ^ k

PipeUnchanged == UNCHANGED <<pipeVars, restVars>>

StartCall(n) ==
    /\ call' = n
    /\ attempt' = 0
    /\ outcomes' = <<>>
    /\ sleeps' = <<>>
    /\ qresult' = "running"

SkipNever(inp) == FALSE

\* `if not holds and not briefing: ...; return`
Skip(inp) == ~inp.holds /\ ~inp.briefing

\* main, up to the first call_qwen
DStart ==
    /\ dpc = "start"
    /\ IF Skip(inputs)
       THEN /\ dpc' = "done"
            /\ UNCHANGED <<call, attempt, outcomes, sleeps, qresult>>
       ELSE /\ dpc' = "qwen"
            /\ StartCall(1)
    /\ UNCHANGED <<inputs, answer, written, called, requests, chunks, main_raised>>
    /\ PipeUnchanged

\* call_qwen: one pass of the loop body (POST, then return, raise or sleep)
QwenAttempt ==
    /\ dpc = "qwen"
    /\ qresult = "running"
    /\ \E o \in QwenOutcomes :
         /\ outcomes' = Append(outcomes, o)
         /\ IF o.kind = "ok"
            THEN qresult' = "returned" /\ UNCHANGED <<attempt, sleeps>>
            ELSE IF Caught(o) /\ attempt # LastAttempt
            THEN /\ sleeps' = Append(sleeps, Delay(attempt))
                 /\ attempt' = attempt + 1
                 /\ UNCHANGED qresult
            ELSE qresult' = "raised" /\ UNCHANGED <<attempt, sleeps>>
    /\ UNCHANGED <<dpc, inputs, call, answer, written, called, requests, chunks, main_raised>>
    /\ PipeUnchanged

ReturnedText == outcomes[Len(outcomes)]

\* main: the first call has returned or raised
AfterFirstCall ==
    /\ dpc = "qwen"
    /\ call = 1
    /\ qresult \in {"returned", "raised"}
    /\ IF qresult = "raised"
       THEN /\ dpc' = "done"
            /\ UNCHANGED <<call, attempt, outcomes, sleeps, qresult, answer>>
       ELSE /\ answer' = ReturnedText
            /\ IF ~ReturnedText.sec2 \/ ~ReturnedText.sec3
               THEN StartCall(2) /\ UNCHANGED dpc
               ELSE dpc' = "write" /\ UNCHANGED <<call, attempt, outcomes, sleeps, qresult>>
    /\ UNCHANGED <<inputs, written, called, requests, chunks, main_raised>>
    /\ PipeUnchanged

\* main: the supplementary call has returned or raised
AfterSupplement ==
    /\ dpc = "qwen"
    /\ call = 2
    /\ qresult \in {"returned", "raised"}
    /\ IF qresult = "returned"
       THEN answer' = [kind |-> "ok",
                       sec2 |-> answer.sec2 \/ ReturnedText.sec2,
                       sec3 |-> answer.sec3 \/ ReturnedText.sec3,
                       lines |-> answer.lines \o ReturnedText.lines]
       ELSE UNCHANGED answer
    /\ dpc' = "write"
    /\ UNCHANGED <<inputs, call, attempt, outcomes, sleeps, qresult, written, called,
                   requests, chunks, main_raised>>
    /\ PipeUnchanged

WriteAnswer ==
    /\ dpc = "write"
    /\ written' = answer
    /\ dpc' = "serverchan"
    /\ UNCHANGED <<inputs, call, attempt, outcomes, sleeps, qresult, answer, called,
                   requests, chunks, main_raised>>
    /\ PipeUnchanged

TelegramLimit == 3900   \* daily_push_qwen.py:292
RetryLimit == 3000      \* daily_push_qwen.py:329
BarkLimit == 3500       \* daily_push_qwen.py:342
BarkGetLimit == 1800    \* daily_push_qwen.py:352

RECURSIVE Sum(_)
Sum(ns) == IF ns = <<>> THEN 0 ELSE Head(ns) + Sum(Tail(ns))

\* len() of the text whose lines are joined by "\n"
TextLen(lines) == IF lines = <<>> THEN 0 ELSE Sum(lines) + Len(lines) - 1

\* `for i in range(0, len(raw), limit): out.append(raw[i:i+limit])`
Slices(n, limit) ==
    [i \in 1..((n + limit - 1) \div limit) |->
        <<IF i * limit <= n THEN limit ELSE n - (i - 1) * limit>>]

\* _chunk_markdown: the loop over the lines of a paragraph that is too long
RECURSIVE chunk_lines(_, _, _, _)
chunk_lines(lines, limit, tmp, out) ==
    IF lines = <<>> THEN (IF tmp # <<>> THEN Append(out, tmp) ELSE out)
    ELSE LET ln == Head(lines)
         IN  IF ln > limit
             THEN chunk_lines(Tail(lines), limit, tmp, out \o Slices(ln, limit))
             ELSE IF TextLen(Append(tmp, ln)) <= limit
             THEN chunk_lines(Tail(lines), limit, Append(tmp, ln), out)
             ELSE chunk_lines(Tail(lines), limit, <<ln>>, Append(out, tmp))

\* _chunk_markdown of a text of plain lines (one section, one paragraph, on
\* which md_to_telegram_html and _strip_html are the identity): the chunks
chunk_markdown(lines, limit) ==
    IF TextLen(lines) <= limit
    THEN (IF lines = <<>> THEN <<>> ELSE <<lines>>)
    ELSE chunk_lines(lines, limit, <<>>, <<>>)

Min(a, b) == IF a <= b THEN a ELSE b

\* an HTTP request of a push function and the length of the text it carries
Req(op, n) == [op |-> op, len |-> n]

\* push_serverchan: `except httpx.HTTPError` covers network and status errors
PushServerchan ==
    /\ dpc = "serverchan"
    /\ called' = Append(called, "serverchan")
    /\ IF inputs.sckey
       THEN \E o \in {"ok", "RequestError", "HTTPStatusError"} :
                requests' = Append(requests, Req("sc.send", TextLen(answer.lines)))
       ELSE UNCHANGED requests
    /\ dpc' = "telegram"
    /\ UNCHANGED <<inputs, call, attempt, outcomes, sleeps, qresult, answer, written,
                   chunks, main_raised>>
    /\ PipeUnchanged

\* push_telegram up to the loop: the env check, _chunk_markdown, getMe
TgStart ==
    /\ dpc = "telegram"
    /\ called' = Append(called, "telegram")
    /\ IF ~inputs.telegram
       THEN dpc' = "bark" /\ UNCHANGED <<requests, chunks>>
       ELSE /\ requests' = Append(requests, Req("tg.getMe", 0))
            /\ \E gm \in {"ok", "not200", "RequestError"} :
                 IF gm = "RequestError"
                 THEN dpc' = "bark" /\ UNCHANGED chunks
                 ELSE /\ dpc' = "tg_send"
                      /\ chunks' = chunk_markdown(answer.lines, TelegramLimit)
    /\ UNCHANGED <<inputs, call, attempt, outcomes, sleeps, qresult, answer, written,
                   main_raised>>
    /\ PipeUnchanged

\* What the sendMessage of one chunk can meet:
\*   ok            200 and {"ok": true}
\*   RequestError  caught by the loop's except
\*   rejected      not 200 or ok false, a description naming neither case
\*   entities      ... a description with "entities": one plain-text retry
\*   too_long      ... "message is too long": re-chunked at 3000, one POST each
\*   not_json      200 and a body that is not JSON: r.json() raises ValueError
TgOutcomes == {"ok", "RequestError", "rejected", "entities", "too_long", "not_json"}

\* the requests of the first n segments of the re-chunked body
SegRequests(segs, n) == [i \in 1..n |-> Req("tg.seg", TextLen(segs[i]))]

TgRaises(o) == o = "not_json"

\* push_telegram: one pass of the loop over the chunks
TgSend ==
    /\ dpc = "tg_send"
    /\ chunks # <<>>
    /\ \E o \in TgOutcomes :
         LET body == Head(chunks)
             send == Req("tg.send", TextLen(body))
         IN  IF TgRaises(o)
             THEN /\ requests' = Append(requests, send)
                  /\ main_raised' = TRUE
                  /\ dpc' = "done"
                  /\ UNCHANGED chunks
             ELSE /\ chunks' = Tail(chunks)
                  /\ UNCHANGED <<dpc, main_raised>>
                  /\ CASE o = "entities" ->
                            requests' = requests \o <<send, Req("tg.plain", TextLen(body))>>
                       [] o = "too_long" ->
                            \* a RequestError of a segment's POST ends the loop
                            LET segs == chunk_markdown(body, RetryLimit)
                            IN  \E sent \in 1..Len(segs) :
                                    requests' = requests \o <<send>> \o SegRequests(segs, sent)
                       [] OTHER ->
                            requests' = Append(requests, send)
    /\ UNCHANGED <<inputs, call, attempt, outcomes, sleeps, qresult, answer, written, called>>
    /\ PipeUnchanged

\* push_telegram returns
TgEnd ==
    /\ dpc = "tg_send"
    /\ chunks = <<>>
    /\ dpc' = "bark"
    /\ UNCHANGED <<inputs, call, attempt, outcomes, sleeps, qresult, answer, written,
                   called, requests, chunks, main_raised>>
    /\ PipeUnchanged

\* push_bark: the POST, and the GET fallback when it fails
PushBark ==
    /\ dpc = "bark"
    /\ called' = Append(called, "bark")
    /\ \E o \in {"ok", "HTTPError"} :
         LET body == TextLen(answer.lines)
             post == Req("bark.post", Min(body, BarkLimit))
         IN  IF o = "ok"
             THEN requests' = Append(requests, post)
             ELSE \E o2 \in {"ok", "HTTPError"} :
                      requests' = requests \o <<post, Req("bark.get", Min(body, BarkGetLimit))>>
    /\ dpc' = "done"
    /\ UNCHANGED <<inputs, call, attempt, outcomes, sleeps, qresult, answer, written,
                   chunks, main_raised>>
    /\ PipeUnchanged

-----------------------------------------------------------------------------
(* news_pipeline.fetch_juhe_caijing *)

MaxKws == 7             \* most keywords passed to a fetch
MinBatchKw == 3         \* news_pipeline.py:74
BatchKwEnv == {1, 4}    \* values of API_BATCH_KW in the environment

Max(a, b) == IF a >= b THEN a ELSE b

\* `API_BATCH_KW = max(3, int(os.getenv("API_BATCH_KW", "6")))`
API_BATCH_KW(v) == Max(MinBatchKw, v)

\* `[kws[i:i+API_BATCH_KW] for i in range(0, len(kws), API_BATCH_KW)] or [[]]`
Batches(kws, size) ==
    IF kws = <<>> THEN << <<>> >>
    ELSE [i \in 1..((Len(kws) + size - 1) \div size) |->
            SubSeq(kws, (i - 1) * size + 1, Min(i * size, Len(kws)))]

\* _api_time_window(): the last SPAN_DAYS days
ApiTimeWindow == [start |-> "now - SPAN_DAYS", end |-> "now"]

\* What the GET of one batch can meet. The first six are the bad responses,
\* each with the warning it logs; "empty" and "one" are well-formed responses
\* with a newslist of 0 and 1 articles; "raises" is an exception of the GET
\* (httpx.RequestError) and "bad_article" a newslist element that is no dict
\* (AttributeError of a.get), both caught by the outer except.
BadResponses ==
    {"http_status", "invalid_json", "non_dict", "error_code", "result_not_dict",
     "newslist_not_list"}
GoodResponses == {"empty", "one"}
RaisingResponses == {"raises", "bad_article"}
JuheResponses == BadResponses \cup GoodResponses \cup RaisingResponses

WarningOf(r) ==
    CASE r = "http_status" -> "juhe HTTP"
      [] r = "invalid_json" -> "juhe invalid json"
      [] r = "non_dict" -> "juhe non-dict response"
      [] r = "error_code" -> "juhe error response"
      [] r = "result_not_dict" -> "juhe result not dict"
      [] r = "newslist_not_list" -> "juhe newslist not list"

\* the items a well-formed response of batch b adds
JuheItems(r, b) ==
    IF r = "one" THEN <<[source_key |-> "juhe_caijing", batch |-> b]>> ELSE <<>>

JuheIdle ==
    [pc |-> "idle", key |-> "", kws |-> <<>>, batches |-> <<>>, params |-> <<>>,
     responses |-> <<>>, all_items |-> <<>>, warnings |-> <<>>,
     ret |-> [name |-> None, items |-> <<>>, err |-> None]]

JuheOthers == UNCHANGED <<pipeVars, pushVars, mig, ht, fn, ck>>

JuheReturnedNoErr(j, items, err) ==
    [j EXCEPT !.pc = "returned",
              !.ret = [name |-> "juhe_caijing", items |-> items, err |-> None]]

\* `return "juhe_caijing", items, err`
JuheReturned(j, items, err) ==
    [j EXCEPT !.pc = "returned",
              !.ret = [name |-> "juhe_caijing", items |-> items, err |-> err]]

\* the call, up to the loop
JuheCall ==
    /\ juhe.pc = "called"
    /\ IF juhe.key = ""
       THEN juhe' = JuheReturned(juhe, <<>>, "no_key")
       ELSE juhe' = [juhe EXCEPT !.pc = "loop"]
    /\ JuheOthers

SkipBatchStops(j, r) ==
    JuheReturned([j EXCEPT !.warnings = Append(@, WarningOf(r))], j.all_items,
                 IF j.all_items # <<>> THEN None ELSE "0 items")

\* `logger.warning(...); continue`
SkipBatch(j, r) == [j EXCEPT !.warnings = Append(@, WarningOf(r))]

\* one pass of `for b in batches`
JuheBatch ==
    /\ juhe.pc = "loop"
    /\ Len(juhe.responses) < Len(juhe.batches)
    /\ \E r \in JuheResponses :
         LET n == Len(juhe.responses) + 1
             b == juhe.batches[n]
             params == IF b # <<>> THEN [key |-> juhe.key, word |-> b]
                                   ELSE [key |-> juhe.key]
             sent == [juhe EXCEPT !.params = Append(@, params),
                                  !.responses = Append(@, r)]
         IN  juhe' =
               IF r \in RaisingResponses
               THEN JuheReturned(sent, <<>>, "Exception")
               ELSE IF r \in BadResponses
               THEN SkipBatch(sent, r)
               ELSE [sent EXCEPT !.all_items = @ \o JuheItems(r, n)]
    /\ JuheOthers

\* the return after the loop
JuheReturn ==
    /\ juhe.pc = "loop"
    /\ Len(juhe.responses) = Len(juhe.batches)
    /\ juhe' = JuheReturned(juhe, juhe.all_items,
                            IF juhe.all_items # <<>> THEN None ELSE "0 items")
    /\ JuheOthers

-----------------------------------------------------------------------------
(* migrate_sources_yml.py *)

MaxEntries == 2         \* most entries of the old sources.yml

PINNED_DEFAULT == {"sse", "szse", "csrc", "cninfo"}

Absent == "absent"      \* a field the old entry does not have

\* The content of sources.yml as yaml.safe_load returns it:
\*   list           a list of entries
\*   null           an empty document (None)
\*   empty_mapping  {}
\*   mapping        a non-empty mapping
\*   scalar         a non-empty string or a non-zero number
Content(kind, items) == [kind |-> kind, items |-> items]
Missing == Content("missing", <<>>)
NoFile == Content("none", <<>>)

\* entries of the old format; the YAML values true and false are "true" and
\* "false", dict says whether the list element is a mapping at all
Flags == {Absent, "false", "true"}
OldEntries ==
    [dict : {TRUE}, key : {"a", "sse"}, url : {"u"}, keep : Flags, trusted : Flags,
     enabled : {Absent, "false"}, consec_fail : {0}]
    \cup [dict : {TRUE}, key : {"a"}, url : {"u"}, keep : {"true"}, trusted : {Absent},
          enabled : {"true"}, consec_fail : {2}]
    \cup [dict : {TRUE}, key : {Absent, "a"}, url : {Absent}, keep : {"true"},
          trusted : {Absent}, enabled : {Absent}, consec_fail : {0}]
    \cup [dict : {FALSE}, key : {Absent}, url : {Absent}, keep : {Absent},
          trusted : {Absent}, enabled : {Absent}, consec_fail : {0}]

OldFiles ==
    {Missing} \cup {Content(k, <<>>) : k \in {"null", "empty_mapping", "mapping", "scalar"}}
    \cup {Content("list", items) : items \in UNION {[1..n -> OldEntries] : n \in 0..MaxEntries}}

\* `s.get(field, default)`
Field(v, default) == IF v = Absent THEN default ELSE v

\* Python's truth value of a field's value (an absent field reads as None)
Truthy(v) == v \notin {Absent, "false", ""}

\* `yaml.safe_load(...) or []`
OrEmptyList(c) ==
    IF c.kind \in {"null", "empty_mapping"} \/ (c.kind = "list" /\ c.items = <<>>)
    THEN Content("list", <<>>)
    ELSE c

\* `bool(s.get("keep", False) or s.get("trusted", False) or (key in PINNED_DEFAULT))`
MigKeep(e) ==
    \/ Truthy(Field(e.keep, "false"))
    \/ Truthy(Field(e.trusted, "false"))
    \/ e.key \in PINNED_DEFAULT

\* the entry main appends to out
NewEntry(e) ==
    [key |-> e.key, url |-> e.url, keep |-> MigKeep(e),
     consec_fail |-> e.consec_fail]

MigIdle ==
    [pc |-> "idle", file |-> Missing, file0 |-> Missing, bak |-> NoFile,
     raw |-> <<>>, i |-> 1, out |-> <<>>, origin |-> <<>>, seen_keys |-> {},
     dropped |-> <<>>, exit |-> None, writes |-> 0]

MigOthers == UNCHANGED <<pipeVars, pushVars, juhe, ht, fn, ck>>

\* main, lines 25-32: the two checks
MigCheck ==
    /\ mig.pc = "start"
    /\ IF mig.file = Missing
       THEN mig' = [mig EXCEPT !.pc = "done", !.exit = 1]
       ELSE LET raw == OrEmptyList(mig.file)
            IN  IF raw.kind # "list"
                THEN mig' = [mig EXCEPT !.pc = "done", !.exit = 1]
                ELSE mig' = [mig EXCEPT !.pc = "backup", !.raw = raw.items]
    /\ MigOthers

BackupSkipped(m) == [m EXCEPT !.pc = "loop"]

\* `shutil.copyfile(SRC, bak)`
Backup(m) == [m EXCEPT !.bak = m.file, !.pc = "loop"]

MigBackup ==
    /\ mig.pc = "backup"
    /\ mig' = Backup(mig)
    /\ MigOthers

\* one pass of `for s in raw`
MigEntry ==
    /\ mig.pc = "loop"
    /\ mig.i <= Len(mig.raw)
    /\ LET e == mig.raw[mig.i]
           next == [mig EXCEPT !.i = @ + 1]
       IN  mig' =
             IF ~e.dict THEN next
             ELSE IF ~Truthy(e.key) \/ ~Truthy(e.url)
             THEN [next EXCEPT !.dropped = Append(@, "missing key/url")]
             ELSE IF e.key \in mig.seen_keys
             THEN [next EXCEPT !.dropped = Append(@, "duplicate key")]
             ELSE IF Field(e.enabled, "true") = "false"
             THEN [next EXCEPT !.seen_keys = @ \cup {e.key},
                               !.dropped = Append(@, "enabled=false")]
             ELSE [next EXCEPT !.seen_keys = @ \cup {e.key},
                               !.out = Append(@, NewEntry(e)),
                               !.origin = Append(@, mig.i)]
    /\ MigOthers

\* `SRC.write_text(yaml.safe_dump(out, ...))`
MigWrite ==
    /\ mig.pc = "loop"
    /\ mig.i > Len(mig.raw)
    /\ mig' = [mig EXCEPT !.file = Content("list", mig.out), !.writes = @ + 1,
                          !.pc = "done", !.exit = 0]
    /\ MigOthers

-----------------------------------------------------------------------------
(* holdings_tracker.py *)

MaxWeight == 2          \* weights are 0..MaxWeight millionths
MaxTrackerRuns == 2     \* runs of holdings_tracker.main in one behaviour
Tolerance == 1          \* holdings_tracker.py:45 (1e-6, in millionths)

Symbols == {"A", "B"}

Holding(sym, w) == [symbol |-> sym, name |-> sym, weight |-> w]

Holdings == {Holding(sym, w) : sym \in Symbols, w \in 0..MaxWeight}

\* the lists of at most one holding per symbol, and the lists that name one
\* symbol twice
HoldingLists ==
    {<<>>} \cup {<<h>> : h \in Holdings}
    \cup {<<h, g>> : h \in Holdings, g \in Holdings}

\* a JSON file: missing, not parseable, or the text of a list of holdings
JsonFile(kind, data) == [kind |-> kind, data |-> data]
JsonMissing == JsonFile("missing", <<>>)
JsonInvalid == JsonFile("invalid", <<>>)

json_dumps_empty(data) == JsonFile("json", <<>>)

\* `json.dumps(curr, ...)` written to a file
json_dumps(data) == JsonFile("json", data)

load_json(f) == IF f.kind = "json" THEN f.data ELSE <<>>

\* the keys of dict_by_symbol(items), in the order of their first insertion
RECURSIVE SymbolsOf(_, _)
SymbolsOf(items, seen) ==
    IF items = <<>> THEN seen
    ELSE IF \E n \in 1..Len(seen) : seen[n] = Head(items).symbol
    THEN SymbolsOf(Tail(items), seen)
    ELSE SymbolsOf(Tail(items), Append(seen, Head(items).symbol))

\* dict_by_symbol(items)[sym]: the last item with that symbol
Lookup(items, sym) ==
    items[CHOOSE n \in 1..Len(items) :
            /\ items[n].symbol = sym
            /\ \A k \in (n + 1)..Len(items) : items[k].symbol # sym]

Has(items, sym) == \E n \in 1..Len(items) : items[n].symbol = sym

Abs(x) == IF x < 0 THEN 0 - x ELSE x

DiffersAtAll(old_w, new_w) == old_w # new_w

\* `abs(old_w - item['weight']) > 1e-6`
Differs(old_w, new_w) == Abs(old_w - new_w) > Tolerance

Row(type, sym, name, detail) ==
    [date |-> "today", type |-> type, symbol |-> sym, name |-> name, detail |-> detail]

\* compare, first loop: `for sym in old_map`
RECURSIVE Removes(_, _, _)
Removes(syms, old, new) ==
    IF syms = <<>> THEN <<>>
    ELSE LET sym == Head(syms)
         IN  (IF ~Has(new, sym)
              THEN <<Row("REMOVE", sym, Lookup(old, sym).name, <<Lookup(old, sym).weight>>)>>
              ELSE <<>>)
             \o Removes(Tail(syms), old, new)

\* compare, second loop: `for sym, item in new_map.items()`
RECURSIVE AddsAndUpdates(_, _, _)
AddsAndUpdates(syms, old, new) ==
    IF syms = <<>> THEN <<>>
    ELSE LET sym == Head(syms)
             item == Lookup(new, sym)
         IN  (IF ~Has(old, sym)
              THEN <<Row("ADD", sym, item.name, <<item.weight>>)>>
              ELSE IF Differs(Lookup(old, sym).weight, item.weight)
              THEN <<Row("UPDATE", sym, item.name, <<Lookup(old, sym).weight, item.weight>>)>>
              ELSE <<>>)
             \o AddsAndUpdates(Tail(syms), old, new)

compare(old, new) ==
    Removes(SymbolsOf(old, <<>>), old, new) \o AddsAndUpdates(SymbolsOf(new, <<>>), old, new)

\* holdings_log.csv: missing, or its rows after the header
NoLog == [exists |-> FALSE, rows |-> <<>>]

\* append_log when the write succeeds
append_log(log, rows) ==
    IF rows = <<>> THEN log ELSE [exists |-> TRUE, rows |-> log.rows \o rows]

HtIdle ==
    [pc |-> "idle", cur |-> JsonMissing, snap |-> JsonMissing, log |-> NoLog,
     prev |-> <<>>, curr |-> <<>>, diff |-> <<>>, exit |-> None, runs |-> 0,
     snap0 |-> JsonMissing, log0 |-> NoLog, repeated |-> FALSE]

HtOthers == UNCHANGED <<pipeVars, pushVars, juhe, mig, fn, ck>>

\* main, lines 65-71: the check, the two loads, compare, append_log
HtCompare ==
    /\ ht.pc = "start"
    /\ IF ht.cur = JsonMissing
       THEN ht' = [ht EXCEPT !.pc = "done", !.exit = 1]
       ELSE LET curr == load_json(ht.cur)
                prev == load_json(ht.snap)
                diff == compare(prev, curr)
            IN  \* append_log writes only when there are rows, and logs a failed write
                \E wrote \in (IF diff = <<>> THEN {TRUE} ELSE BOOLEAN) :
                    ht' = [ht EXCEPT !.pc = "logged", !.prev = prev, !.curr = curr,
                                     !.diff = diff,
                                     !.log = IF wrote THEN append_log(@, diff) ELSE @]
    /\ HtOthers

\* main, lines 72-80: the snapshot
HtSnapshot ==
    /\ ht.pc = "logged"
    /\ \E wrote \in BOOLEAN :
         ht' = IF wrote
               THEN [ht EXCEPT !.pc = "done", !.exit = 0, !.snap = json_dumps(ht.curr),
                               !.runs = @ + 1]
               ELSE [ht EXCEPT !.pc = "done", !.exit = 1, !.runs = @ + 1]
    /\ HtOthers

\* holdings.json is edited between the first two runs; later runs repeat
EditsAfter(h) ==
    IF h.runs = 1 THEN {JsonInvalid} \cup {JsonFile("json", l) : l \in HoldingLists}
    ELSE {h.cur}

\* the script is started again, holdings.json unchanged or edited meanwhile
HtAgain ==
    /\ ht.pc = "done"
    /\ ht.runs \in 1..(MaxTrackerRuns - 1)
    /\ \E f \in EditsAfter(ht) :
         ht' = [ht EXCEPT !.pc = "start", !.cur = f, !.exit = None,
                          !.snap0 = ht.snap, !.log0 = ht.log,
                          !.repeated = (ht.exit = 0 /\ f = ht.cur)]
    /\ HtOthers

-----------------------------------------------------------------------------
(* fetch_news.py *)

MaxItems == 2           \* largest --max (max_items) passed to gather_all
MaxFetched == 1         \* most items one fetcher returns

\* characters of symbols, names and news texts
Dot == "."

\* str.endswith
EndsWith(s, suf) ==
    Len(s) >= Len(suf) /\ SubSeq(s, Len(s) - Len(suf) + 1, Len(s)) = suf

\* s.split(".")[0]
BeforeDot(s) ==
    IF \E n \in 1..Len(s) : s[n] = Dot
    THEN SubSeq(s, 1, (CHOOSE n \in 1..Len(s) : s[n] = Dot /\ \A k \in 1..(n - 1) : s[k] # Dot) - 1)
    ELSE s

\* Holding.clean_symbol
clean_symbol(h) == BeforeDot(h.symbol)

\* Holding.is_cn
is_cn(h) == EndsWith(h.symbol, <<Dot, "S", "H">>) \/ EndsWith(h.symbol, <<Dot, "S", "Z">>)

FnHolding(sym, name) == [symbol |-> sym, name |-> name]

\* the holdings.json lists of a call (main returns before gather_all on an
\* empty one), of an A-share fund, a US stock and a Hong Kong stock
FnHoldingLists ==
    LET HoldingCN == FnHolding(<<"A", Dot, "S", "H">>, <<"a", "B">>)
        HoldingUS == FnHolding(<<"B">>, <<"B", "a">>)
        HoldingHK == FnHolding(<<"a", Dot, "H", "K">>, <<"a", "a">>)
    IN  {<<HoldingCN>>, <<HoldingUS>>, <<HoldingHK>>, <<HoldingCN, HoldingUS>>,
         <<HoldingUS, HoldingUS>>, <<HoldingUS, HoldingHK>>}

Urls == {"u1", "u2"}

\* NewsItem.fingerprint: the MD5 digest of the URL
fingerprint(item) == <<"md5", item.url>>

\* sentiment in tenths: naive_sentiment gives -1..1, Alpha Vantage any float
NaiveSentiments == {-10, 0}
AlphaSentiments == {-30, 0}

\* title and summary of a fetched item
NewsTexts == {<<>>, <<"B", "A">>}

NewsItem(text, url, sentiment, symbols) ==
    [text |-> text, url |-> url, sentiment |-> sentiment, symbols |-> symbols]

\* `[h.symbol for h in holdings if not h.is_cn and "." not in h.symbol]`
Overseas(holdings) ==
    LET sel == SelectSeq(holdings, LAMBDA h : ~is_cn(h) /\ \A k \in 1..Len(h.symbol) : h.symbol[k] # Dot)
    IN  [n \in 1..Len(sel) |-> sel[n].symbol]

\* the tasks gather_all creates, in order
Tasks(holdings) ==
    LET cn == SelectSeq(holdings, is_cn)
        abroad == SelectSeq(holdings, LAMBDA h : ~is_cn(h))
    IN  [n \in 1..Len(cn) |-> [fetcher |-> "tushare_news", arg |-> cn[n].symbol]]
        \o (IF Overseas(holdings) # <<>>
            THEN <<[fetcher |-> "alpha_news", arg |-> Overseas(holdings)]>> ELSE <<>>)
        \o [n \in 1..Len(abroad) |->
              [fetcher |-> "finnhub_news", arg |-> BeforeDot(abroad[n].symbol)]]
        \o [n \in 1..Len(cn) |-> [fetcher |-> "juhe_news", arg |-> cn[n].name]]

\* the items a fetcher can build
ItemsOf(task) ==
    IF task.fetcher = "alpha_news"
    THEN {NewsItem(t, u, s, sy) : t \in NewsTexts, u \in Urls, s \in AlphaSentiments,
                                  sy \in {<<>>} \cup {<<task.arg[n]>> : n \in 1..Len(task.arg)}}
    ELSE {NewsItem(t, u, s, <<task.arg>>) : t \in NewsTexts, u \in Urls, s \in NaiveSentiments}

\* what asyncio.gather(..., return_exceptions=True) holds for a task
FnResults(task) ==
    {[exception |-> TRUE, items |-> <<>>]}
    \cup {[exception |-> FALSE, items |-> l] :
            l \in UNION {[1..n -> ItemsOf(task)] : n \in 0..MaxFetched}}

\* the score before the clip, in hundredths
RECURSIVE RawScore(_, _, _)
RawScore(item, holdings, n) ==
    IF n = 0 THEN 0
    ELSE LET h == holdings[n]
             text == StrLower(item.text)
         IN  RawScore(item, holdings, n - 1)
             + (IF \E k \in 1..Len(item.symbols) : item.symbols[k] = h.symbol THEN 60
                ELSE IF IsSubstring(StrLower(clean_symbol(h)), text)
                        \/ IsSubstring(StrLower(h.name), text) THEN 30
                ELSE 0)

\* relevance, in hundredths
relevance(item, holdings) ==
    Min(RawScore(item, holdings, Len(holdings)) + Abs(item.sentiment), 100)

DictAppend(news, item) == Append(news, item)

\* news[item.fingerprint()] = item : a dict keeps the place of a key it has
DictSet(news, item) ==
    IF \E n \in 1..Len(news) : fingerprint(news[n]) = fingerprint(item)
    THEN [n \in 1..Len(news) |->
            IF fingerprint(news[n]) = fingerprint(item) THEN item ELSE news[n]]
    ELSE Append(news, item)

RECURSIVE DictSetAll(_, _)
DictSetAll(news, items) ==
    IF items = <<>> THEN news ELSE DictSetAll(DictSet(news, Head(items)), Tail(items))

\* sorted(..., key, reverse=True): stable, larger keys first
InsertByScore(sorted, item, holdings) ==
    LET k == Cardinality({n \in 1..Len(sorted) :
                            relevance(sorted[n], holdings) >= relevance(item, holdings)})
    IN  SubSeq(sorted, 1, k) \o <<item>> \o SubSeq(sorted, k + 1, Len(sorted))

RECURSIVE SortedByScore(_, _)
SortedByScore(items, holdings) ==
    IF items = <<>> THEN <<>>
    ELSE InsertByScore(SortedByScore(SubSeq(items, 1, Len(items) - 1), holdings),
                       items[Len(items)], holdings)

\* seq[:n]
SliceTo(seq, n) ==
    IF n >= 0 THEN SubSeq(seq, 1, Min(n, Len(seq)))
    ELSE SubSeq(seq, 1, Max(Len(seq) + n, 0))

FnIdle ==
    [pc |-> "idle", holdings |-> <<>>, max_items |-> 0, tasks |-> <<>>,
     done |-> 0, replaced |-> FALSE, news |-> <<>>, ret |-> <<>>]

FnOthers == UNCHANGED <<pipeVars, pushVars, juhe, mig, ht, ck>>

\* the tasks are created and gathered
FnGather ==
    /\ fn.pc = "called"
    /\ fn' = [fn EXCEPT !.pc = "merge", !.tasks = Tasks(fn.holdings)]
    /\ FnOthers

\* one pass of `for res in results`
FnMerge ==
    /\ fn.pc = "merge"
    /\ fn.done < Len(fn.tasks)
    /\ \E res \in FnResults(fn.tasks[fn.done + 1]) :
         LET news == IF res.exception THEN fn.news ELSE DictSetAll(fn.news, res.items)
         IN  fn' = [fn EXCEPT !.done = @ + 1,
                              !.replaced = @ \/ Len(news) < Len(fn.news) + Len(res.items),
                              !.news = news]
    /\ FnOthers

\* `scored = sorted(...); return scored[:max_items]`
FnReturn ==
    /\ fn.pc = "merge"
    /\ fn.done = Len(fn.tasks)
    /\ fn' = [fn EXCEPT !.pc = "returned",
                        !.ret = SliceTo(SortedByScore(fn.news, fn.holdings), fn.max_items)]
    /\ FnOthers

-----------------------------------------------------------------------------
(* daily_push_qwen._chunk_markdown, character by character *)

MaxPieces == 4          \* a text is at most this many pieces
MaxLimit == 8           \* largest limit passed to _chunk_markdown

NL == "\n"

\* The pieces the texts are made of: a letter, an ampersand, a bold marker,
\* a newline, a section number and a blank.  The texts have no table, no
\* heading, no quote and no list item.
Pieces == {<<"a">>, <<"&">>, <<"*", "*">>, <<NL>>, <<"1", ")">>, <<" ">>}

RECURSIVE Flatten(_)
Flatten(ss) == IF ss = <<>> THEN <<>> ELSE Head(ss) \o Flatten(Tail(ss))

MdTexts == {Flatten(ps) : ps \in UNION {[1..n -> Pieces] : n \in 0..MaxPieces}}

\* \s and \d of the regular expressions
IsSpace(c) == c \in {" ", NL}
IsDigit(c) == c = "1"

\* str.strip()
RECURSIVE PyLStrip(_)
PyLStrip(s) == IF s # <<>> /\ IsSpace(Head(s)) THEN PyLStrip(Tail(s)) ELSE s

RECURSIVE PyRStrip(_)
PyRStrip(s) ==
    IF s # <<>> /\ IsSpace(s[Len(s)]) THEN PyRStrip(SubSeq(s, 1, Len(s) - 1)) ELSE s

PyStrip(s) == PyRStrip(PyLStrip(s))

\* index of the first c in s at or after i, 0 if there is none
RECURSIVE Find(_, _, _)
Find(s, c, i) ==
    IF i > Len(s) THEN 0 ELSE IF s[i] = c THEN i ELSE Find(s, c, i + 1)

\* str.splitlines()
RECURSIVE splitlines(_)
splitlines(s) ==
    IF s = <<>> THEN <<>>
    ELSE LET k == Find(s, NL, 1)
         IN  IF k = 0 THEN <<s>>
             ELSE <<SubSeq(s, 1, k - 1)>> \o splitlines(SubSeq(s, k + 1, Len(s)))

\* sep.join(parts)
RECURSIVE Join(_, _)
Join(parts, sep) ==
    IF parts = <<>> THEN <<>>
    ELSE IF Len(parts) = 1 THEN parts[1]
    ELSE parts[1] \o sep \o Join(Tail(parts), sep)

\* _html_escape
html_escape(s) ==
    LET Escape1(c) == IF c = "&" THEN <<"&", "a", "m", "p", ";">>
                      ELSE IF c = "<" THEN <<"&", "l", "t", ";">>
                      ELSE IF c = ">" THEN <<"&", "g", "t", ";">>
                      ELSE <<c>>
    IN  Flatten([n \in 1..Len(s) |-> Escape1(s[n])])

StartsAt(s, i, pre) == i + Len(pre) - 1 <= Len(s) /\ SubSeq(s, i, i + Len(pre) - 1) = pre

Stars == <<"*", "*">>

\* the end of the shortest `(.+?)\*\*` from i on: index of the closing
\* marker, 0 if a newline or the end of the text comes first
RECURSIVE BoldClose(_, _)
BoldClose(s, j) ==
    IF j > Len(s) \/ s[j - 1] = NL THEN 0
    ELSE IF StartsAt(s, j, Stars) THEN j
    ELSE BoldClose(s, j + 1)

\* re.sub(r'\*\*(.+?)\*\*', r'<b>\1</b>', text), from index i on
RECURSIVE Bold(_, _)
Bold(s, i) ==
    IF i > Len(s) THEN <<>>
    ELSE LET j == IF StartsAt(s, i, Stars) /\ i + 2 <= Len(s) THEN BoldClose(s, i + 3) ELSE 0
         IN  IF j # 0
             THEN <<"<", "b", ">">> \o SubSeq(s, i + 2, j - 1) \o <<"<", "/", "b", ">">>
                  \o Bold(s, j + 2)
             ELSE <<s[i]>> \o Bold(s, i + 1)

\* re.sub(r'\n{3,}', '\n\n', text)
RECURSIVE Squeeze(_, _)
Squeeze(s, run) ==
    IF s = <<>> THEN <<>>
    ELSE IF Head(s) = NL
    THEN (IF run >= 2 THEN <<>> ELSE <<NL>>) \o Squeeze(Tail(s), run + 1)
    ELSE <<Head(s)>> \o Squeeze(Tail(s), 0)

md_to_telegram_html(md_text) ==
    LET raw_lines == splitlines(md_text)
        lines == [n \in 1..Len(raw_lines) |-> html_escape(raw_lines[n])]
        text == Join(lines, <<NL>>)
    IN  PyStrip(Squeeze(Bold(text, 1), 0))

\* the lookahead ^\s*\d\)\s at index p (a line start)
SectionStart(s, p) ==
    /\ p = 1 \/ s[p - 1] = NL
    /\ LET rest == PyLStrip(SubSeq(s, p, Len(s)))
       IN  Len(rest) >= 3 /\ IsDigit(rest[1]) /\ rest[2] = ")" /\ IsSpace(rest[3])

\* re.split at the section starts: the parts of s from index `from` on
RECURSIVE SplitAt(_, _, _)
SplitAt(s, from, p) ==
    IF p > Len(s) THEN <<SubSeq(s, from, Len(s))>>
    ELSE IF SectionStart(s, p)
    THEN <<SubSeq(s, from, p - 1)>> \o SplitAt(s, p, p + 1)
    ELSE SplitAt(s, from, p + 1)

split_markdown_sections(md_text) ==
    LET split == SplitAt(md_text, 1, 1)
        parts == SelectSeq([n \in 1..Len(split) |-> PyStrip(split[n])],
                           LAMBDA p : p # <<>>)
    IN  IF parts = <<>> THEN <<PyStrip(md_text)>> ELSE parts

RECURSIVE DropNL(_)
DropNL(s) == IF s # <<>> /\ Head(s) = NL THEN DropNL(Tail(s)) ELSE s

\* re.split(r'\n{2,}', sec): cur is the paragraph being read
RECURSIVE SplitParas(_, _)
SplitParas(s, cur) ==
    IF s = <<>> THEN <<cur>>
    ELSE IF Len(s) >= 2 /\ s[1] = NL /\ s[2] = NL
    THEN <<cur>> \o SplitParas(DropNL(s), <<>>)
    ELSE SplitParas(Tail(s), Append(cur, Head(s)))

ChopNot(raw, limit) == IF raw = <<>> THEN <<>> ELSE <<raw>>

\* `for i in range(0, len(raw), limit): out.append(raw[i:i+limit])`
Chop(raw, limit) ==
    [i \in 1..((Len(raw) + limit - 1) \div limit) |->
        SubSeq(raw, (i - 1) * limit + 1, Min(i * limit, Len(raw)))]

AddLine(tmp, ln) == tmp \o (IF tmp # <<>> THEN <<NL>> ELSE <<>>) \o ln

\* flush_buf: the loop over the lines of a buf that is too long
RECURSIVE FlushLines(_, _, _, _)
FlushLines(lines, limit, tmp, out) ==
    IF lines = <<>>
    THEN (IF tmp # <<>> THEN Append(out, md_to_telegram_html(tmp)) ELSE out)
    ELSE LET ln == Head(lines)
             ln_html == md_to_telegram_html(ln)
         IN  IF Len(tmp) + (IF tmp # <<>> THEN 1 ELSE 0) + Len(ln_html) <= limit
             THEN FlushLines(Tail(lines), limit, AddLine(tmp, ln), out)
             ELSE IF tmp # <<>>
             THEN FlushLines(Tail(lines), limit, ln, Append(out, md_to_telegram_html(tmp)))
             ELSE FlushLines(Tail(lines), limit, tmp, out \o Chop(ln_html, limit))

\* flush_buf: out after it (buf is empty after it)
flush_buf(buf, limit, out) ==
    IF buf = <<>> THEN out
    ELSE IF Len(md_to_telegram_html(buf)) <= limit
    THEN Append(out, md_to_telegram_html(buf))
    ELSE FlushLines(splitlines(buf), limit, <<>>, out)

\* `for ln in para.splitlines()` and the `if tmp` after it
RECURSIVE ParaLines(_, _, _, _)
ParaLines(lines, limit, tmp, out) ==
    IF lines = <<>>
    THEN (IF tmp # <<>> THEN Append(out, md_to_telegram_html(tmp)) ELSE out)
    ELSE LET ln == Head(lines)
             ln_html == md_to_telegram_html(ln)
         IN  IF Len(ln_html) > limit
             THEN ParaLines(Tail(lines), limit, tmp, out \o Chop(ln_html, limit))
             ELSE IF Len(md_to_telegram_html(AddLine(tmp, ln))) <= limit
             THEN ParaLines(Tail(lines), limit, AddLine(tmp, ln), out)
             ELSE ParaLines(Tail(lines), limit, ln, Append(out, md_to_telegram_html(tmp)))

\* `for para in paras` and the flush_buf after it
RECURSIVE ChunkParas(_, _, _, _)
ChunkParas(paras, limit, buf, out) ==
    IF paras = <<>> THEN flush_buf(buf, limit, out)
    ELSE LET para == Head(paras)
             candidate == buf \o (IF buf # <<>> THEN <<NL, NL>> ELSE <<>>) \o para
         IN  IF Len(md_to_telegram_html(candidate)) <= limit
             THEN ChunkParas(Tail(paras), limit, candidate, out)
             ELSE ChunkParas(Tail(paras), limit, <<>>,
                             ParaLines(splitlines(para), limit, <<>>,
                                       flush_buf(buf, limit, out)))

CkIdle == [pc |-> "idle", md_text |-> <<>>, limit |-> 1, sections |-> <<>>, out |-> <<>>]

CkOthers == UNCHANGED <<pipeVars, pushVars, juhe, mig, ht, fn>>

\* `sections = _split_markdown_sections(md_text)`
CkSplit ==
    /\ ck.pc = "called"
    /\ ck' = [ck EXCEPT !.pc = "loop", !.sections = split_markdown_sections(ck.md_text)]
    /\ CkOthers

\* one pass of `for sec in sections`
CkSection ==
    /\ ck.pc = "loop"
    /\ ck.sections # <<>>
    /\ ck' = [ck EXCEPT !.sections = Tail(@),
                        !.out = ChunkParas(SplitParas(Head(ck.sections), <<>>),
                                           ck.limit, <<>>, @)]
    /\ CkOthers

\* `return out`
CkReturn ==
    /\ ck.pc = "loop"
    /\ ck.sections = <<>>
    /\ ck' = [ck EXCEPT !.pc = "returned"]
    /\ CkOthers

-----------------------------------------------------------------------------
(* Initial states *)

\* the calls and scripts that do not run
RestIdle == juhe = JuheIdle /\ mig = MigIdle /\ ht = HtIdle /\ fn = FnIdle /\ ck = CkIdle

PushIdle ==
    /\ dpc = "start"
    /\ inputs = [holds |-> FALSE, briefing |-> FALSE, sckey |-> FALSE, telegram |-> FALSE]
    /\ call = 0
    /\ attempt = 0
    /\ outcomes = <<>>
    /\ sleeps = <<>>
    /\ qresult = "none"
    /\ answer = NoText
    /\ written = NoText
    /\ called = <<>>
    /\ requests = <<>>
    /\ chunks = <<>>
    /\ main_raised = FALSE

SourcePool ==
    {Source(k, u, kp, cf) : k \in RssKeys, u \in {"", "u"}, kp \in BOOLEAN, cf \in 0..InitMaxFail}

Files == {<<s>> : s \in SourcePool} \cup {<<s, t>> : s \in SourcePool, t \in SourcePool}

PipeIdle ==
    /\ phase = "idle"
    /\ runs = 0
    /\ sources_rss = <<>>
    /\ before = <<>>
    /\ pending = {}
    /\ own = <<>>
    /\ api_results = <<>>
    /\ all_items = <<>>
    /\ per_source_all = <<>>
    /\ last_status = <<>>
    /\ final_kws = <<>>
    /\ briefing = <<>>
    /\ news_all = <<>>
    /\ errors_log = <<>>
    /\ file_read = <<>>
    /\ file0 = file
    /\ allFailed = {file[i].key : i \in 1..Len(file)}
    /\ everOk = {}

Init ==
    /\ file \in Files
    /\ env \in [api_keys : {{}, {"newsapi"}}, chinese_only : {FALSE}]
    /\ world = [entries |-> [k \in RssKeys |-> {Entry(<<"a">>, <<>>, <<>>)}],
                keywords |-> {k \in KwInputs : Len(k.extra) <= 1 /\ k.base = <<>>}]
    /\ PipeIdle
    /\ PushIdle
    /\ RestIdle

\* One run over two healthy sources, with every feed entry and keyword list
InitFilter ==
    /\ file = <<Source("a", "u", FALSE, 0), Source("newsapi", "u", TRUE, 0)>>
    /\ env \in [api_keys : {{"juhe_caijing"}}, chinese_only : BOOLEAN]
    /\ world = [entries |-> [k \in RssKeys |-> IF k = "a" THEN Entries ELSE FewEntries],
                keywords |-> KwInputs]
    /\ PipeIdle
    /\ PushIdle
    /\ RestIdle

\* daily_push_qwen.main in every environment
InitPush ==
    /\ file = <<>>
    /\ env = [api_keys |-> {}, chinese_only |-> FALSE]
    /\ world = [entries |-> [k \in RssKeys |-> {}], keywords |-> {}]
    /\ PipeIdle
    /\ dpc = "start"
    /\ inputs \in [holds : BOOLEAN, briefing : BOOLEAN, sckey : BOOLEAN, telegram : BOOLEAN]
    /\ call = 0
    /\ attempt = 0
    /\ outcomes = <<>>
    /\ sleeps = <<>>
    /\ qresult = "none"
    /\ answer = NoText
    /\ written = NoText
    /\ called = <<>>
    /\ requests = <<>>
    /\ chunks = <<>>
    /\ main_raised = FALSE
    /\ RestIdle

\* no pipeline run: an empty working directory
PipeOff ==
    /\ file = <<>>
    /\ env = [api_keys |-> {}, chinese_only |-> FALSE]
    /\ world = [entries |-> [k \in RssKeys |-> {}], keywords |-> {}]
    /\ PipeIdle

\* fetch_juhe_caijing(kws) for every keyword count, batch size and JUHE_KEY
InitJuhe ==
    /\ PipeOff
    /\ PushIdle
    /\ mig = MigIdle
    /\ ht = HtIdle
    /\ fn = FnIdle
    /\ ck = CkIdle
    /\ \E n \in 0..MaxKws, v \in BatchKwEnv, k \in {"", "x"} :
         juhe = [JuheIdle EXCEPT !.pc = "called", !.key = k,
                                 !.kws = [i \in 1..n |-> i],
                                 !.batches = Batches([i \in 1..n |-> i], API_BATCH_KW(v))]

\* holdings_tracker.main, first run: no snapshot or an unreadable one
InitTracker ==
    /\ PipeOff
    /\ PushIdle
    /\ juhe = JuheIdle
    /\ mig = MigIdle
    /\ fn = FnIdle
    /\ ck = CkIdle
    /\ \E f \in {JsonMissing, JsonInvalid} \cup {JsonFile("json", l) : l \in HoldingLists},
          sn \in {JsonMissing, JsonInvalid} :
         ht = [HtIdle EXCEPT !.pc = "start", !.cur = f, !.snap = sn, !.snap0 = sn]

NextTracker == HtCompare \/ HtSnapshot \/ HtAgain

SpecTracker == InitTracker /\ [][NextTracker]_vars

\* migrate_sources_yml.main on every old sources.yml
InitMig ==
    /\ PipeOff
    /\ PushIdle
    /\ juhe = JuheIdle
    /\ ht = HtIdle
    /\ fn = FnIdle
    /\ ck = CkIdle
    /\ \E f \in OldFiles : mig = [MigIdle EXCEPT !.pc = "start", !.file = f, !.file0 = f]

NextMig == MigCheck \/ MigBackup \/ MigEntry \/ MigWrite

SpecMig == InitMig /\ [][NextMig]_vars

\* gather_all(holdings, days, max_items) for every holdings list and max_items
InitNews ==
    /\ PipeOff
    /\ PushIdle
    /\ juhe = JuheIdle
    /\ mig = MigIdle
    /\ ht = HtIdle
    /\ ck = CkIdle
    /\ \E hs \in FnHoldingLists, mx \in 0..MaxItems :
         fn = [FnIdle EXCEPT !.pc = "called", !.holdings = hs, !.max_items = mx]

NextNews == FnGather \/ FnMerge \/ FnReturn

SpecNews == InitNews /\ [][NextNews]_vars

\* _chunk_markdown(md_text, limit) for every text and limit
InitChunk ==
    /\ PipeOff
    /\ PushIdle
    /\ juhe = JuheIdle
    /\ mig = MigIdle
    /\ ht = HtIdle
    /\ fn = FnIdle
    /\ \E t \in MdTexts, l \in 1..MaxLimit :
         ck = [CkIdle EXCEPT !.pc = "called", !.md_text = t, !.limit = l]

NextChunk == CkSplit \/ CkSection \/ CkReturn

SpecChunk == InitChunk /\ [][NextChunk]_vars

NextJuhe == JuheCall \/ JuheBatch \/ JuheReturn

SpecJuhe == InitJuhe /\ [][NextJuhe]_vars

Next ==
    \/ Load
    \/ \E i \in pending : RssDone(i)
    \/ Finish

Spec == Init /\ [][Next]_vars

SpecFilter == InitFilter /\ [][Next]_vars

NextPush ==
    \/ DStart
    \/ QwenAttempt
    \/ AfterFirstCall
    \/ AfterSupplement
    \/ WriteAnswer
    \/ PushServerchan
    \/ TgStart
    \/ TgSend
    \/ TgEnd
    \/ PushBark

SpecPush == InitPush /\ [][NextPush]_vars

-----------------------------------------------------------------------------
(* Source health: news_pipeline.main over successive runs *)

Listed(f, k) == \E j \in 1..Len(f) : f[j].key = k

UniqueIn(f, k) == Cardinality({j \in 1..Len(f) : f[j].key = k}) = 1

Valid(s) == s.key # "" /\ s.url # ""

\* The sources C1 speaks of: unpinned, valid, key unique in sources.yml,
\* consec_fail = 0 before the first run, and a failed fetch in every run so far.
FreshAndFailing(s) ==
    /\ Valid(s)
    /\ UniqueIn(file0, s.key)
    /\ ~s.keep
    /\ s.consec_fail = 0
    /\ s.key \in allFailed

\* C1: a source with keep=false, a key unique in sources.yml and consec_fail=0
\* is still listed after 1 and after 2 consecutive failed runs, and is removed
\* at the end of the run in which it fails for the 3rd consecutive time.
C1_RemovedAtThirdFailure ==
    phase = "saved" =>
        \A i \in 1..Len(file0) :
            FreshAndFailing(file0[i]) =>
                /\ (runs < FailLimit => Listed(file, file0[i].key))
                /\ (runs = FailLimit => ~Listed(file, file0[i].key))

\* The same statement for the sources whose key is not also the name of an API
\* source whose key is set: this one holds.
C1_WithoutApiCollision ==
    phase = "saved" =>
        \A i \in 1..Len(file0) :
            (FreshAndFailing(file0[i]) /\ file0[i].key \notin env.api_keys) =>
                /\ (runs < FailLimit => Listed(file, file0[i].key))
                /\ (runs = FailLimit => ~Listed(file, file0[i].key))

Pinned(f, k) == {j \in 1..Len(f) : f[j].key = k /\ f[j].keep /\ Valid(f[j])}

\* C2: a source with keep=true (and a non-empty key and url) is never removed
\* from sources.yml, after any number of failed runs and whatever its
\* consec_fail: every pinned entry of the first sources.yml is in every later one.
C2_PinnedNeverRemoved ==
    \A k \in RssKeys : Cardinality(Pinned(file, k)) = Cardinality(Pinned(file0, k))

\* A pinned source that failed in each of two or more runs and stands at or
\* above the limit is still listed.
C2_Witness ==
    /\ phase = "saved"
    /\ runs >= 2
    /\ \E j \in 1..Len(file) :
         /\ file[j].keep
         /\ file[j].key \in allFailed
         /\ file[j].consec_fail >= FailLimit

\* C3: after every completed run, no source remaining in sources.yml has both
\* keep=false and consec_fail >= 3, whatever sources.yml held before the run.
C3_NoUnpinnedAtLimit ==
    phase = "saved" =>
        \A j \in 1..Len(file) : ~(~file[j].keep /\ file[j].consec_fail >= FailLimit)

\* A source that was unpinned with consec_fail at the limit before the run
\* failed again and is gone, while another source is still listed.
C3_Witness ==
    /\ phase = "saved"
    /\ Len(file) > 0
    /\ \E i \in DOMAIN own :
         /\ ~before[i].keep
         /\ before[i].consec_fail >= FailLimit
         /\ OwnFailed(own[i])
         /\ ~Listed(file, before[i].key)

\* C4: for a source with a unique key whose fetch failed, consec_fail after the
\* run is consec_fail before plus 1 and last_error is the failure status, while
\* last_ok and ok are unchanged.
C4_FailureCounted ==
    phase = "saved" =>
        \A i \in DOMAIN own :
            (UniqueIn(file_read, before[i].key) /\ OwnFailed(own[i])) =>
                /\ sources_rss[i].consec_fail = before[i].consec_fail + 1
                /\ sources_rss[i].last_error = StatusOf(own[i].items, own[i].err)
                /\ sources_rss[i].last_ok = before[i].last_ok
                /\ sources_rss[i].ok = before[i].ok

\* The same statement without the keys an enabled API source also uses: holds.
C4_WithoutApiCollision ==
    phase = "saved" =>
        \A i \in DOMAIN own :
            (/\ UniqueIn(file_read, before[i].key)
             /\ before[i].key \notin env.api_keys
             /\ OwnFailed(own[i])) =>
                /\ sources_rss[i].consec_fail = before[i].consec_fail + 1
                /\ sources_rss[i].last_error = StatusOf(own[i].items, own[i].err)
                /\ sources_rss[i].last_ok = before[i].last_ok
                /\ sources_rss[i].ok = before[i].ok

\* C5: for a source with a unique key whose fetch returned at least one item
\* without error, after the run consec_fail is 0, ok is true, last_error is
\* empty and last_ok is set; and a source that has succeeded once has ok true
\* in every later saved sources.yml that lists it.
C5_SuccessResets ==
    phase = "saved" =>
        /\ \A i \in DOMAIN own :
              (UniqueIn(file_read, before[i].key) /\ ~OwnFailed(own[i])) =>
                  /\ sources_rss[i].consec_fail = 0
                  /\ sources_rss[i].ok
                  /\ sources_rss[i].last_error = None
                  /\ sources_rss[i].last_ok = Now
        /\ \A j \in 1..Len(file) :
              (UniqueIn(file0, file[j].key) /\ file[j].key \in everOk) => file[j].ok

\* The same statement without the keys an enabled API source also uses: holds.
C5_WithoutApiCollision ==
    phase = "saved" =>
        /\ \A i \in DOMAIN own :
              (/\ UniqueIn(file_read, before[i].key)
               /\ before[i].key \notin env.api_keys
               /\ ~OwnFailed(own[i])) =>
                  /\ sources_rss[i].consec_fail = 0
                  /\ sources_rss[i].ok
                  /\ sources_rss[i].last_error = None
                  /\ sources_rss[i].last_ok = Now
        /\ \A j \in 1..Len(file) :
              (/\ UniqueIn(file0, file[j].key)
               /\ file[j].key \notin env.api_keys
               /\ file[j].key \in everOk) => file[j].ok

-----------------------------------------------------------------------------
(* Keyword filter *)

CaseEq(x, y) == x = y \/ {x, y} \in {{"a", "A"}, {"b", "B"}}

\* k occurs in text, letter case ignored
OccursIgnoringCase(k, text) ==
    \E off \in 0..(Len(text) - Len(k)) :
        \A j \in 1..Len(k) : CaseEq(text[off + j], k[j])

\* the text 'title summary content' of an item
TextOf(it) == it.title \o <<" ">> \o it.summary \o <<" ">> \o it.content

Hits(it, kws) == \E n \in 1..Len(kws) : OccursIgnoringCase(kws[n], TextOf(it))

RECURSIVE HitLines(_, _)
HitLines(items, kws) ==
    IF items = <<>> THEN <<>>
    ELSE IF Hits(Head(items), kws)
    THEN <<Line(Head(items))>> \o HitLines(Tail(items), kws)
    ELSE HitLines(Tail(items), kws)

\* C6: with a non-empty final keyword list, briefing.txt holds exactly the
\* fetched items, in the order collected, of which some keyword is a
\* case-insensitive substring of 'title summary content'.
C6_BriefingIsTheHits ==
    (phase = "saved" /\ final_kws # <<>>) => briefing = HitLines(all_items, final_kws)

\* A run with keywords in which three items were collected, one is written and
\* one is left out, and an item is hit only because letter case is ignored.
C6_Witness ==
    /\ phase = "saved"
    /\ final_kws # <<>>
    /\ Len(all_items) = 3
    /\ Len(briefing) \in 1..2
    /\ \E i \in 1..Len(all_items) :
         /\ Hits(all_items[i], final_kws)
         /\ \A n \in 1..Len(final_kws) : ~IsSubstring(final_kws[n], TextOf(all_items[i]))

\* C7: in every run, every line of briefing.txt is the line of a fetched item
\* that hits at least one keyword of the final keyword list.
C7_OnlyKeywordHits ==
    phase = "saved" =>
        \A n \in 1..Len(briefing) :
            \E i \in 1..Len(all_items) :
                Line(all_items[i]) = briefing[n] /\ Hits(all_items[i], final_kws)

-----------------------------------------------------------------------------
(* daily_push_qwen: call_qwen and the pushes *)

\* C8: a failed attempt of call_qwen (network error, timeout, HTTP error
\* status, a response without output.text) is retried, and call_qwen raises
\* only after 3 attempts in total.
C8_RaisesOnlyAfterThreeAttempts ==
    qresult = "raised" => Len(outcomes) = QwenAttempts

\* C9: one call of call_qwen issues at most 3 POSTs; it returns at the first
\* successful attempt without further requests; it sleeps 2^k seconds after
\* failed attempt k (k = 0, 1) and does not sleep after the last attempt.
C9_BoundedBackoff ==
    /\ Len(outcomes) <= QwenAttempts
    /\ \A n \in 1..Len(outcomes) :
          outcomes[n].kind = "ok" => (n = Len(outcomes) /\ qresult = "returned")
    /\ \A n \in 1..Len(outcomes) :
          (outcomes[n].kind # "ok" /\ n - 1 < LastAttempt) =>
              (Len(sleeps) >= n /\ sleeps[n] = 2 ^ (n - 1))
    /\ Len(sleeps) <= LastAttempt

\* C10: once main has an answer it calls the Server-chan, Telegram and Bark
\* pushes in that order, and a failed push (network error, HTTP error status,
\* malformed or non-JSON body) never prevents the later pushes and never makes
\* main raise.
C10_PushFailuresIgnored ==
    /\ ~main_raised
    /\ (dpc = "done" /\ answer # NoText) => called = <<"serverchan", "telegram", "bark">>

\* the length limit the code applies to the text of a request, per channel;
\* push_serverchan applies none, the greatest limit of the code stands for it
LimitOf(op) ==
    CASE op = "bark.post" -> BarkLimit
      [] op = "bark.get" -> BarkGetLimit
      [] op = "tg.seg" -> RetryLimit
      [] OTHER -> TelegramLimit

\* C11: for an answer of any length, the text of every request of
\* push_serverchan, push_telegram and push_bark is at most the fixed length
\* limit of its channel: an answer longer than the limit is never sent whole.
C11_RequestsWithinLimit ==
    \A n \in 1..Len(requests) : requests[n].len <= LimitOf(requests[n].op)

\* The same statement for the requests of push_telegram and push_bark: holds
\* for the plain texts of this model.
C11_TelegramAndBarkWithinLimit ==
    \A n \in 1..Len(requests) :
        requests[n].op # "sc.send" => requests[n].len <= LimitOf(requests[n].op)

-----------------------------------------------------------------------------
(* fetch_juhe_caijing *)

Answered(n) == juhe.responses[n] \in BadResponses \cup GoodResponses

RECURSIVE ItemsOfGood(_)
\* the articles of the well-formed responses among the first n, in batch order
ItemsOfGood(n) ==
    IF n = 0 THEN <<>>
    ELSE ItemsOfGood(n - 1) \o (IF juhe.responses[n] = "one"
                                 THEN <<[source_key |-> "juhe_caijing", batch |-> n]>>
                                 ELSE <<>>)

BadCount == Cardinality({n \in 1..Len(juhe.responses) : juhe.responses[n] \in BadResponses})

AllAnswered == \A n \in 1..Len(juhe.responses) : Answered(n)

\* C13 as stated: with JUHE_KEY set the call returns the name 'juhe_caijing',
\* its error is None exactly when the returned list is non-empty, and when no
\* batch yields an item it returns an empty list with error '0 items'.
C13_ZeroItemsWheneverNoItem ==
    (juhe.pc = "returned" /\ juhe.key # "") =>
        /\ juhe.ret.name = "juhe_caijing"
        /\ (juhe.ret.err = None <=> juhe.ret.items # <<>>)
        /\ (juhe.all_items = <<>> => (juhe.ret.items = <<>> /\ juhe.ret.err = "0 items"))

\* C13, amended: with JUHE_KEY set the call returns the name 'juhe_caijing' and
\* its error is None exactly when the returned list is non-empty; when every
\* request was answered and no batch yields an item it returns an empty list
\* with error '0 items'; when a request or a response raises an exception it
\* returns an empty list with the exception as the error.
C13_ErrorNoneIffItems ==
    (juhe.pc = "returned" /\ juhe.key # "") =>
        /\ juhe.ret.name = "juhe_caijing"
        /\ (juhe.ret.err = None <=> juhe.ret.items # <<>>)
        /\ ((AllAnswered /\ juhe.all_items = <<>>) =>
               (juhe.ret.items = <<>> /\ juhe.ret.err = "0 items"))
        /\ (~AllAnswered => (juhe.ret.items = <<>> /\ juhe.ret.err = "Exception"))

\* A call whose only response is not a dict returns no item and '0 items'.
C13_Witness ==
    /\ juhe.pc = "returned"
    /\ juhe.key # ""
    /\ juhe.responses = <<"non_dict">>
    /\ juhe.ret = [name |-> "juhe_caijing", items |-> <<>>, err |-> "0 items"]

\* C14: called with an empty keyword list and JUHE_KEY set, the fetch sends one
\* request, without a 'word' parameter, whose parameters are exactly the key
\* plus 'start' and 'end' of _api_time_window().
C14_WindowParameters ==
    (juhe.pc = "returned" /\ juhe.key # "" /\ juhe.kws = <<>>) =>
        /\ Len(juhe.params) = 1
        /\ juhe.params[1] = [key |-> juhe.key, start |-> ApiTimeWindow.start,
                             end |-> ApiTimeWindow.end]

\* What holds of that request: it is the only one and carries the key alone.
C14_KeyOnly ==
    (juhe.pc = "returned" /\ juhe.key # "" /\ juhe.kws = <<>>) =>
        /\ Len(juhe.params) = 1
        /\ juhe.params[1] = [key |-> juhe.key]

-----------------------------------------------------------------------------
(* Completion order of the RSS fetches *)

\* the orders in which n tasks can complete
Orders(n) == {p \in [1..n -> 1..n] : \A i, j \in 1..n : p[i] = p[j] => i = j}

\* per_source_all and last_status after the as_completed loop, when the tasks
\* complete in the order ord with the results of this run
RECURSIVE RssFold(_, _, _, _)
RssFold(ord, n, psa, ls) ==
    IF n > Len(ord) THEN [psa |-> psa, ls |-> ls]
    ELSE LET i == ord[n]
             key == before[i].key
         IN  RssFold(ord, n + 1,
                     (key :> Len(own[i].items)) @@ psa,
                     (key :> StatusOf(own[i].items, own[i].err)) @@ ls)

\* the sources.yml this run writes when the tasks complete in the order ord
FileFor(ord) ==
    LET f == RssFold(ord, 1, <<>>, <<>>)
        a == ApiFold(1, api_results, <<>>, f.psa, f.ls)
        mutated == [i \in 1..Len(before) |-> WriteBack(before[i], a.psa, a.ls)]
    IN  save_sources(SelectSeq(mutated, LAMBDA s : ~IsRemoved(s)))

\* C15: the sources.yml written at the end of a run is the one every other
\* completion order of the RSS fetches would have given, the fetch results
\* being the same: same sources, same consec_fail, ok and last_error.
C15_OrderIndependent ==
    phase = "saved" => \A ord \in Orders(Len(before)) : FileFor(ord) = file

\* The same statement for the runs in which no two loaded sources share a
\* key: holds.
C15_WithUniqueKeys ==
    (phase = "saved" /\ \A i \in 1..Len(before) : UniqueIn(before, before[i].key)) =>
        \A ord \in Orders(Len(before)) : FileFor(ord) = file

-----------------------------------------------------------------------------
(* Fetch errors and the run *)

InSeq(x, seq) == \E n \in 1..Len(seq) : seq[n] = x

EnabledApis == {n \in 1..Len(ApiNames) : ApiNames[n] \in env.api_keys}

RECURSIVE SumOver(_, _)
SumOver(f, S) ==
    IF S = {} THEN 0
    ELSE LET x == CHOOSE y \in S : TRUE IN Len(f[x].items) + SumOver(f, S \ {x})

\* C16: a fetch error of an RSS source or of an API source never aborts a run
\* of main: the run reaches its end, the error is logged, every item of every
\* other source is a row of news_all.csv (and nothing else is), briefing.txt is
\* the filter of those rows, and sources.yml is saved with the written-back
\* sources.
C16_ErrorsDoNotAbort ==
    /\ phase # "aborted"
    /\ phase = "saved" =>
          /\ \A i \in DOMAIN own :
                /\ \A n \in 1..Len(own[i].items) : InSeq(own[i].items[n], news_all)
                /\ OwnFailed(own[i]) =>
                      InSeq([key |-> before[i].key,
                             status |-> StatusOf(own[i].items, own[i].err)], errors_log)
          /\ \A a \in EnabledApis :
                /\ \A n \in 1..Len(api_results[a].items) :
                      InSeq(api_results[a].items[n], news_all)
                /\ OwnFailed(api_results[a]) =>
                      InSeq([key |-> ApiNames[a],
                             status |-> StatusOf(api_results[a].items, api_results[a].err)],
                            errors_log)
          /\ Len(news_all) = SumOver(own, DOMAIN own) + SumOver(api_results, EnabledApis)
          /\ briefing = Lines(HitItems(news_all, final_kws))
          /\ file = save_sources(SelectSeq(sources_rss, LAMBDA s : ~IsRemoved(s)))

\* A finished run in which one RSS fetch raised ConnectError and the enabled
\* API source timed out, while the other RSS source's item is in news_all.csv
\* and, hitting a keyword, in briefing.txt, and sources.yml lists both sources.
C16_Witness ==
    /\ phase = "saved"
    /\ final_kws # <<>>
    /\ \E i \in DOMAIN own : own[i].err = "ConnectError"
    /\ \E a \in EnabledApis : api_results[a].err = "ReadTimeout"
    /\ Len(news_all) = 1
    /\ Len(briefing) = 1
    /\ Len(file) = 2
    /\ Len(errors_log) = 2

-----------------------------------------------------------------------------
(* migrate_sources_yml *)

\* C17: in the file migrate_sources_yml.main writes, every retained source has
\* keep = true exactly when its old entry had keep or trusted set to a true
\* value, and keep = false otherwise.
C17_KeepIsKeepOrTrusted ==
    mig.pc = "done" /\ mig.exit = 0 =>
        \A n \in 1..Len(mig.file.items) :
            LET old == mig.file0.items[mig.origin[n]]
            IN  mig.file.items[n].keep <=> (Truthy(old.keep) \/ Truthy(old.trusted))

\* The same statement for the sources whose key is not in PINNED_DEFAULT: holds.
C17_UnlessPinnedByDefault ==
    mig.pc = "done" /\ mig.exit = 0 =>
        \A n \in 1..Len(mig.file.items) :
            LET old == mig.file0.items[mig.origin[n]]
            IN  old.key \notin PINNED_DEFAULT =>
                    (mig.file.items[n].keep <=> (Truthy(old.keep) \/ Truthy(old.trusted)))

\* C18 as stated: when main overwrites sources.yml a backup with the original
\* content exists, and when sources.yml is missing or its content is not a
\* list main exits with status 1 without writing or backing up any file.
C18_BackupOrExit ==
    /\ mig.writes > 0 => mig.bak = mig.file0
    /\ (mig.pc = "done" /\ mig.file0.kind # "list") =>
          (mig.exit = 1 /\ mig.writes = 0 /\ mig.bak = NoFile /\ mig.file = mig.file0)

\* C18, amended: from the backup on and at the write, a backup with the
\* original content exists; when sources.yml is missing or its content is a
\* non-empty value that is not a list, main exits with status 1 without writing
\* or backing up any file; an empty document or an empty mapping is read as the
\* empty list: it is backed up and sources.yml is rewritten as an empty list.
C18_BackupBeforeWrite ==
    /\ (mig.pc = "loop" \/ mig.writes > 0) => mig.bak = mig.file0
    /\ (mig.pc = "done" /\ mig.file0.kind \in {"missing", "mapping", "scalar"}) =>
          (mig.exit = 1 /\ mig.writes = 0 /\ mig.bak = NoFile /\ mig.file = mig.file0)
    /\ (mig.pc = "done" /\ mig.file0.kind \in {"null", "empty_mapping"}) =>
          (mig.exit = 0 /\ mig.writes = 1 /\ mig.bak = mig.file0
             /\ mig.file = Content("list", <<>>))

\* A run that dropped an entry and rewrote sources.yml, the backup holding the
\* two entries of the original.
C18_Witness ==
    /\ mig.pc = "done"
    /\ mig.writes = 1
    /\ Len(mig.file0.items) = 2
    /\ Len(mig.file.items) = 1
    /\ mig.bak = mig.file0
    /\ mig.bak # mig.file

-----------------------------------------------------------------------------
(* holdings_tracker *)

UniqueSymbols(l) == \A i, j \in 1..Len(l) : l[i].symbol = l[j].symbol => i = j

In(l, sym) == \E n \in 1..Len(l) : l[n].symbol = sym

WeightIn(l, sym) == (CHOOSE h \in {l[n] : n \in 1..Len(l)} : h.symbol = sym).weight

RowsOf(sym) == {n \in 1..Len(ht.diff) : ht.diff[n].symbol = sym}

OneRow(sym, type, detail) ==
    /\ Cardinality(RowsOf(sym)) = 1
    /\ \A n \in RowsOf(sym) : ht.diff[n].type = type /\ ht.diff[n].detail = detail

\* C19: for old and new lists with unique symbols, compare returns exactly one
\* REMOVE row for each symbol in old but not in new, one ADD row for each
\* symbol in new but not in old, one UPDATE row with detail old->new for each
\* symbol in both whose weights differ by more than 1e-6, and no other row.
C19_CompareRows ==
    (UniqueSymbols(ht.prev) /\ UniqueSymbols(ht.curr)) =>
        \A sym \in Symbols :
            LET old == In(ht.prev, sym)
                new == In(ht.curr, sym)
            IN  /\ (old /\ ~new) => OneRow(sym, "REMOVE", <<WeightIn(ht.prev, sym)>>)
                /\ (~old /\ new) => OneRow(sym, "ADD", <<WeightIn(ht.curr, sym)>>)
                /\ (old /\ new) =>
                      LET ow == WeightIn(ht.prev, sym)
                          nw == WeightIn(ht.curr, sym)
                      IN  IF ow - nw > Tolerance \/ nw - ow > Tolerance
                          THEN OneRow(sym, "UPDATE", <<ow, nw>>)
                          ELSE RowsOf(sym) = {}
                /\ (~old /\ ~new) => RowsOf(sym) = {}

\* A comparison of two holdings with one: one symbol is removed, the other's
\* weight changed by more than the tolerance.
C19_Witness ==
    /\ ht.pc = "logged"
    /\ Len(ht.prev) = 2
    /\ UniqueSymbols(ht.prev)
    /\ Len(ht.curr) = 1
    /\ Len(ht.diff) = 2
    /\ ht.diff[1].type = "REMOVE"
    /\ ht.diff[2].type = "UPDATE"

\* C20: after main completes, the snapshot holds the holdings main read from
\* holdings.json; and a second run with holdings.json unchanged finds no
\* difference, appends no row to holdings_log.csv and leaves the snapshot as
\* it was.
C20_SecondRunChangesNothing ==
    /\ (ht.pc = "done" /\ ht.exit = 0) => load_json(ht.snap) = load_json(ht.cur)
    /\ (ht.repeated /\ ht.pc \in {"logged", "done"}) =>
          (ht.diff = <<>> /\ ht.log = ht.log0 /\ ht.snap = ht.snap0)

\* A first run logged the two holdings of holdings.json; the second run, on
\* the same holdings.json, has completed.
C20_Witness ==
    /\ ht.pc = "done"
    /\ ht.exit = 0
    /\ ht.repeated
    /\ ht.runs = MaxTrackerRuns
    /\ Len(ht.curr) = 2
    /\ Len(ht.log.rows) = 2

-----------------------------------------------------------------------------
(* fetch_news.gather_all *)

Score(item) == relevance(item, fn.holdings)

\* C21: gather_all returns at most max_items items, no two of them with the
\* same URL, in order of non-increasing relevance, and every relevance score
\* is between 0 and 1 (0 and 100 hundredths).
C21_GatherAll ==
    fn.pc = "returned" =>
      /\ Len(fn.ret) <= fn.max_items
      /\ \A i, j \in 1..Len(fn.ret) : fn.ret[i].url = fn.ret[j].url => i = j
      /\ \A i, j \in 1..Len(fn.ret) : i < j => Score(fn.ret[i]) >= Score(fn.ret[j])
      /\ \A n \in 1..Len(fn.news) : Score(fn.news[n]) >= 0 /\ Score(fn.news[n]) <= 100

\* a URL came twice, the clip acted, and the less relevant item was cut off
C21_Witness ==
    /\ fn.pc = "returned"
    /\ fn.replaced
    /\ fn.max_items = 1
    /\ Len(fn.ret) = 1
    /\ Len(fn.news) = 2
    /\ RawScore(fn.ret[1], fn.holdings, Len(fn.holdings)) + Abs(fn.ret[1].sentiment) > 100
    /\ \E n \in 1..2 : Score(fn.news[n]) < 100 /\ fn.news[n].url # fn.ret[1].url

-----------------------------------------------------------------------------
(* _chunk_markdown *)

\* characters a chunk holds outside its tags and entities
PlainChars == {"a", "*", " ", NL, "1", ")"}

BoldOpen == <<"<", "b", ">">>
BoldEnd == <<"<", "/", "b", ">">>
Amp == <<"&", "a", "m", "p", ";">>

\* s from index i on is whole entities, whole tags and plain characters, and
\* it closes the <b> that is open (if one is) and every <b> it opens
RECURSIVE Consistent(_, _, _)
Consistent(s, i, open) ==
    IF i > Len(s) THEN ~open
    ELSE IF StartsAt(s, i, Amp) THEN Consistent(s, i + Len(Amp), open)
    ELSE IF StartsAt(s, i, BoldOpen) THEN ~open /\ Consistent(s, i + Len(BoldOpen), TRUE)
    ELSE IF StartsAt(s, i, BoldEnd) THEN open /\ Consistent(s, i + Len(BoldEnd), FALSE)
    ELSE s[i] \in PlainChars /\ Consistent(s, i + 1, open)

LineHtmls(text) ==
    [n \in 1..Len(splitlines(text)) |-> md_to_telegram_html(splitlines(text)[n])]

\* some line of the text is longer than the limit once converted
LongLine == \E n \in 1..Len(LineHtmls(ck.md_text)) : Len(LineHtmls(ck.md_text)[n]) > ck.limit

\* C22: every chunk _chunk_markdown returns is self-consistent HTML: each <b>
\* opened in a chunk is closed in it, and no tag and no entity is cut in two
\* by a chunk boundary, also when a single line is longer than the limit.
C22_ChunksSelfConsistent ==
    ck.pc = "returned" => \A n \in 1..Len(ck.out) : Consistent(ck.out[n], 1, FALSE)

\* the chunks are self-consistent when no single line is longer than the limit
C22_WhenLinesFit ==
    ck.pc = "returned" /\ ~LongLine => \A n \in 1..Len(ck.out) : Consistent(ck.out[n], 1, FALSE)

\* C23: for every text and every limit >= 1, every chunk _chunk_markdown
\* returns has at most limit characters (so every HTML body push_telegram
\* sends has at most 3900).
C23_ChunksWithinLimit ==
    \A n \in 1..Len(ck.out) : Len(ck.out[n]) <= ck.limit

\* a line longer than the limit was cut, after lines that fit were chunked
C23_Witness ==
    /\ ck.pc = "returned"
    /\ LongLine
    /\ Len(ck.out) >= 3
    /\ \E n \in 1..Len(ck.out) : Len(ck.out[n]) = ck.limit
    /\ \E n \in 1..Len(ck.out) : Len(ck.out[n]) < ck.limit

NoSpace(s) == SelectSeq(s, LAMBDA c : ~IsSpace(c))

\* C24: read in order, the chunks hold the content of every non-blank line
\* of the text exactly once and in the order of the text, also when a line
\* longer than the limit follows shorter lines in the same paragraph.
C24_LinesOnceInOrder ==
    ck.pc = "returned" => NoSpace(Flatten(ck.out)) = NoSpace(Flatten(LineHtmls(ck.md_text)))

\* the lines come once and in order when no single line is longer than the limit
C24_WhenLinesFit ==
    ck.pc = "returned" /\ ~LongLine =>
      NoSpace(Flatten(ck.out)) = NoSpace(Flatten(LineHtmls(ck.md_text)))

-----------------------------------------------------------------------------
(* The write-back and shared keys *)

\* C25: in the write-back, a source's consec_fail is reset to 0 only if its
\* own fetch in this run returned at least one item without error, and is
\* incremented otherwise, also when entries of sources.yml share a key or an
\* RSS key is the name of an API source.
C25_OwnFetchDecides ==
    phase = "saved" =>
        \A i \in DOMAIN own :
            sources_rss[i].consec_fail =
                IF OwnFailed(own[i]) THEN before[i].consec_fail + 1 ELSE 0

\* The same for the sources whose key no other entry and no enabled API
\* source uses: holds.
C25_WithKeyOfItsOwn ==
    phase = "saved" =>
        \A i \in DOMAIN own :
            (UniqueIn(file_read, before[i].key) /\ before[i].key \notin env.api_keys) =>
                sources_rss[i].consec_fail =
                    IF OwnFailed(own[i]) THEN before[i].consec_fail + 1 ELSE 0

-----------------------------------------------------------------------------
(* daily_push_qwen.main: the answer and the pushes *)

\* the first call_qwen of the run has returned an answer
FirstReturned == (call = 1 /\ qresult = "returned") \/ call = 2

LacksSection(t) == ~t.sec2 \/ ~t.sec3

C26_State ==
    \* holdings and briefing both empty: no LLM request
    /\ (~inputs.holds /\ ~inputs.briefing) => (call = 0 /\ outcomes = <<>>)
    \* no answer of the first call (yet): nothing written, nothing pushed
    /\ ~FirstReturned => (written = NoText /\ called = <<>> /\ requests = <<>>)
    \* at the end of the run
    /\ dpc = "done" =>
         /\ (written # NoText /\ requests # <<>>) <=> FirstReturned
         /\ FirstReturned => (written = answer /\ Head(called) = "serverchan")

C26_Step ==
    \* the supplementary call comes after an answer that lacks a section, once
    /\ call' # call =>
         /\ call' = call + 1
         /\ call' <= 2
         /\ call' = 2 => (qresult = "returned" /\ LacksSection(ReturnedText))
    /\ (dpc = "qwen" /\ call = 1 /\ qresult = "returned" /\ LacksSection(ReturnedText))
         => call' = 2
    \* when it fails the answer stays the original one, and is written
    /\ (dpc = "qwen" /\ call = 2 /\ qresult = "raised") => (answer' = answer /\ dpc' = "write")
    /\ written' # written => (written' = answer /\ answer # NoText)

\* C26: a run of main sends push requests and writes qwen_answer.md if and
\* only if the first call_qwen returned an answer: with holdings and briefing
\* both empty there is no LLM request and no push, when the first call fails
\* nothing is pushed or written, and when only the supplementary call (made at
\* most once, when the answer lacks "2)" or "3)") fails, the original answer
\* is still written and pushed.
C26_PushIffFirstAnswer == [](C26_State) /\ [][C26_Step]_vars

\* the supplementary call failed, the answer was written and all pushes made
C26_Witness ==
    /\ dpc = "done"
    /\ call = 2
    /\ qresult = "raised"
    /\ written = answer
    /\ answer.lines # <<>>
    /\ called = <<"serverchan", "telegram", "bark">>
    /\ \E n \in 1..Len(requests) : requests[n].op = "tg.send"

==================================================================================
